---- MODULE Spec2Model ----
(***************************************************************************)
(* Coordination core of ModelAI, as state machines: the agents' task       *)
(* queues and processing loop and the agent pool                           *)
(* (src/src/agents/base_agent.py), the provider client's rate limiter,     *)
(* concurrency slots and retry loop (src/src/api/claude_client.py), and    *)
(* the failover between providers (src/src/api/multi_ai_client.py).        *)
(*                                                                         *)
(* The program runs on one asyncio event loop: a coroutine runs without    *)
(* interruption up to its next suspending await, so each action below is   *)
(* one such uninterrupted stretch of a handler.                            *)
(***************************************************************************)
EXTENDS Integers, Sequences, FiniteSets

(***************************************************************************)
(* Bounds of the model.                                                    *)
(***************************************************************************)
\* add_task calls accepted over a run of one agent
MaxSubmit == 3
\* add_task calls accepted over a run of two agents, both together
MaxPoolSubmit == 2
\* add_task calls accepted over a run under fair scheduling without clear_queue
MaxLiveSubmit == 2
\* add_task calls accepted over a run whose tasks differ in time and score
MaxMeasured == 2
\* add_task calls accepted over a run in which the status is asked for
MaxQueryTasks == 1
\* the value up to which total_tasks_completed is counted by further calls of
\* _update_statistics
MaxCompleted == 3
\* RateLimiter(max_requests, window_seconds) as constructed in a run
MaxRequests == 2
WindowSeconds == 2
\* RequestQueue(max_concurrent) as constructed in a run
MaxConcurrent == 2
\* the largest settings.retry_attempts of a run
MaxAttempts == 4
\* register_agent calls and accepted add_task calls over a run of a pool
MaxRegister == 2
MaxPoolTasks == 3
\* send_message calls made on one ClaudeClient over a run
MaxSends == 4

(***************************************************************************)
(* Data model: base_agent.py                                               *)
(***************************************************************************)
\* AgentStatus values
IDLE == "idle"
WORKING == "working"
COMPLETED == "completed"
ERROR == "error"
PAUSED == "paused"
AgentStatus == {IDLE, WORKING, COMPLETED, ERROR, PAUSED}

\* TaskPriority values
LOW == "low"
MEDIUM == "medium"
HIGH == "high"
CRITICAL == "critical"
TaskPriority == {LOW, MEDIUM, HIGH, CRITICAL}

\* the value of an Optional field that is not set
None == "None"

\* current_task when no task is current (None in the place of a task object)
NoTask == [task_id |-> None]

\* the agents of a run and the task ids callers use
Agents == {"a1", "a2"}
TaskIds == {"x", "y"}

\* the coroutines that call RateLimiter.acquire
Callers == {"c1", "c2", "c3"}

\* the coroutines that enter RequestQueue.acquire_slot
SlotCallers == {"s1", "s2", "s3", "s4"}

\* how the body of an acquire_slot scope ends: it returns, it raises, or the
\* task running it is cancelled (CancelledError raised at its await)
ExitPaths == {"return", "raise", "cancel"}

\* the values of settings.retry_delay in a run, in seconds
RetryDelays == {1, 3}

\* what a provider call returns, and the exceptions it raises (instances of
\* Exception)
Responses == {"r1", "r2"}
Errors == {"e1", "e2"}

\* AIService values (multi_ai_client.py)
OPENAI == "openai"
CLAUDE == "claude"
AIService == {OPENAI, CLAUDE}

\* the values of settings.primary_ai_service and settings.fallback_ai_service
\* in a run: the two services and a name that is no service
ServiceSettings == {"openai", "claude", "other"}

\* The coroutines that call ClaudeClient.send_message, and the names under
\* which each of them is a caller of the client's RateLimiter and of its
\* RequestQueue.
Senders == {"m1", "m2", "m3"}
limiter_caller == [m1 |-> "c1", m2 |-> "c2", m3 |-> "c3"]
slot_caller == [m1 |-> "s1", m2 |-> "s2", m3 |-> "s3"]

\* settings.retry_attempts
settings_retry_attempts == 3

\* the agent types agents are constructed with
AgentTypes == {"geometry_agent", "material_agent"}

\* What a caller puts into an AgentTask: id, priority, dependencies.
TaskInput(id, p, deps) == [task_id |-> id, priority |-> p, dependencies |-> deps]

\* The tasks callers submit: every priority, two tasks without dependencies,
\* a task that depends on one id and a task that depends on two.
TaskInputs ==
    { TaskInput("x", CRITICAL, {}),
      TaskInput("x", LOW, {}),
      TaskInput("y", HIGH, {}),
      TaskInput("y", MEDIUM, {"x"}),
      TaskInput("y", LOW, {"x", "y"}) }

\* An AgentTask object; seq is its place in the order of accepted submissions
\* (two task objects with equal fields are still two objects).
AgentTask(in, n) ==
    [task_id |-> in.task_id, priority |-> in.priority,
     dependencies |-> in.dependencies, seq |-> n]

\* What the work extension point _process_task does with a task: returns a
\* result with success=True, returns a result with success=False, or raises.
Outcomes == {"ok", "fail", "raise"}

\* What a result returned by _process_task carries beside success: the time
\* the work took (set by _process_next_task from the clock of the loop) and
\* the quality_score the work gave its result, None when it gave none.
\* Times are whole time units and scores whole tenths; an Optional[float] is
\* <<>> for None and <<x>> for the number x.
Work(processing_time, quality_score) ==
    [processing_time |-> processing_time, quality_score |-> quality_score]
Durations == {0, 2}
Qualities == {<<>>, <<0>>, <<8>>}
Works == {Work(d, q) : d \in Durations, q \in Qualities}

\* work of one time unit that gives no quality_score
PlainWork == Work(1, <<>>)

VARIABLES
    status,                 \* BaseAgent.status, per agent
    current_task,           \* BaseAgent.current_task, per agent (None or a task)
    task_queue,             \* BaseAgent.task_queue, per agent
    results_history,        \* BaseAgent.results_history, per agent
    total_tasks_completed,  \* BaseAgent.total_tasks_completed, per agent
    success_rate,           \* BaseAgent.success_rate, per agent, as a fraction
    total_processing_time,  \* BaseAgent.total_processing_time, per agent
    average_quality_score,  \* BaseAgent.average_quality_score, per agent, as a
                            \* fraction
    scheduled,              \* per agent: _process_next_task invocations created
                            \* by asyncio.create_task and not yet started
    in_flight,              \* per agent: tasks whose _process_task is awaited
    submitted,              \* number of accepted add_task calls so far
    add_ret                 \* <<return value>> of the latest add_task call, <<>> before any

    \* RateLimiter (claude_client.py); times are kept as ages, now - req_time,
    \* and an age stops growing at window_seconds, where the entry is purged
VARIABLES
    rl_requests,            \* RateLimiter.requests, oldest first, as ages
    rl_lock,                \* holder of RateLimiter._lock, or None
    rl_waiters,             \* callers waiting for RateLimiter._lock, in order
    rl_pc,                  \* per caller: "idle" (outside acquire), "waiting"
                            \* (for the lock), "sleeping" (in asyncio.sleep)
    rl_sleep,               \* per caller: time left of its asyncio.sleep
    rl_now,                 \* time.time(), counted modulo window_seconds + 1
                            \* (the program reads only differences of times)
    rl_recent               \* ages of the admissions younger than the window

    \* RequestQueue (claude_client.py) and its asyncio.Semaphore
VARIABLES
    sem_value,              \* Semaphore._value
    sem_waiters,            \* Semaphore._waiters: the callers whose future is
                            \* in the deque, in order
    active_requests,        \* RequestQueue.active_requests
    slot_pc,                \* per caller: "out" (outside acquire_slot),
                            \* "waiting" (future pending), "woken" (future
                            \* has its result, caller not yet run again),
                            \* "cancelled" (future cancelled, caller not yet
                            \* run again), "woken_cancelled" (task cancelled
                            \* after its future got the result), "inside"
                            \* (in the body of the scope)
    slot_exits              \* the ways scopes have been left so far

    \* ClaudeClient._make_request (claude_client.py): one call
VARIABLES
    mr_settings,            \* settings.retry_attempts and settings.retry_delay
                            \* as the call reads them
    mr_pc,                  \* "idle" (not called), "calling" (awaiting the
                            \* provider), "sleeping" (in asyncio.sleep),
                            \* "returned", "raised"
    mr_attempt,             \* the loop variable attempt
    mr_calls,               \* provider calls started by the call
    mr_log,                 \* what each finished provider call did, in order
    mr_sleeps,              \* the wait_time of each asyncio.sleep, in order
    mr_result               \* what the call returned or raised

    \* MultiAIClient (multi_ai_client.py) and one call of its send_message
VARIABLES
    clients,                \* per service: whether MultiAIClient holds a
                            \* client for it (openai_client, claude_client)
    service_priority,       \* MultiAIClient.service_priority
    rt_pc,                  \* "unbuilt" (no MultiAIClient yet), "init_failed",
                            \* "ready", "trying" (awaiting a provider),
                            \* "returned", "raised"
    rt_preferred,           \* the argument preferred_service, or None
    services_to_try,        \* the local services_to_try
    rt_index,               \* position of the for loop in services_to_try
    rt_log,                 \* the providers called so far and what each did
    last_error,             \* the local last_error
    rt_result               \* what send_message returned or raised

    \* ClaudeClient.send_message (claude_client.py): the calls of several
    \* senders on one client, with its RateLimiter and its RequestQueue
VARIABLES
    sm_pc,                  \* per sender: "idle" (outside send_message),
                            \* "admission" (in rate_limiter.acquire), "slot"
                            \* (entering acquire_slot), "provider" (awaiting
                            \* the provider call inside the slot), "backoff"
                            \* (in the asyncio.sleep of _make_request)
    sm_attempt,             \* per sender: the loop variable of _make_request
    total_requests,         \* ClaudeClient.total_requests
    error_count,            \* ClaudeClient.error_count
    sm_sent                 \* send_message calls made so far

    \* the retry loops of the providers MultiAIClient.send_message awaits:
    \* OpenAIClient.send_message (multi_ai_client.py) and
    \* ClaudeClient._make_request (claude_client.py)
VARIABLES
    fo_retry_attempts,      \* settings.retry_attempts
    fo_attempt,             \* the loop variable attempt of the provider awaited
    fo_sleeping,            \* whether that provider is in the asyncio.sleep
                            \* between two attempts
    fo_calls                \* per service: API calls made for the send_message
                            \* call so far

    \* settings (config/settings.py), as MultiAIClient reads them
VARIABLES
    primary_ai_service,     \* settings.primary_ai_service
    fallback_ai_service     \* settings.fallback_ai_service

    \* AgentPool (base_agent.py)
VARIABLES
    agent_type,             \* BaseAgent.agent_type, per agent
    pool_agents,            \* the keys of AgentPool.agents
    agent_types             \* AgentPool.agent_types: per type the list of
                            \* agents (a type that is no key: the empty list)

    \* the callers of get_status and get_pool_status
VARIABLES
    query_ret               \* <<the dict the latest call returned>>, <<>> before any

\* the statistics an agent keeps
statistics == <<total_tasks_completed, success_rate, total_processing_time,
                average_quality_score>>

agentVars == <<status, current_task, task_queue, results_history, statistics,
               scheduled, in_flight, submitted, add_ret>>

\* a float kept exact: num / den
Fraction(n, d) == [num |-> n, den |-> d]

\* BaseAgent.__init__
AgentInit ==
    /\ status = [a \in Agents |-> IDLE]
    /\ current_task = [a \in Agents |-> NoTask]
    /\ task_queue = [a \in Agents |-> <<>>]
    /\ results_history = [a \in Agents |-> <<>>]
    /\ total_tasks_completed = [a \in Agents |-> 0]
    /\ success_rate = [a \in Agents |-> Fraction(1, 1)]
    /\ total_processing_time = [a \in Agents |-> 0]
    /\ average_quality_score = [a \in Agents |-> Fraction(0, 1)]
    /\ scheduled = [a \in Agents |-> 0]
    /\ in_flight = [a \in Agents |-> {}]
    /\ submitted = 0
    /\ add_ret = <<>>

rlVars == <<rl_requests, rl_lock, rl_waiters, rl_pc, rl_sleep, rl_now, rl_recent>>

\* RateLimiter.__init__
RateLimiterInit ==
    /\ rl_requests = <<>>
    /\ rl_lock = None
    /\ rl_waiters = <<>>
    /\ rl_pc = [c \in Callers |-> "idle"]
    /\ rl_sleep = [c \in Callers |-> 0]
    /\ rl_now = 0
    /\ rl_recent = <<>>

slotVars == <<sem_value, sem_waiters, active_requests, slot_pc, slot_exits>>

\* RequestQueue.__init__
RequestQueueInit ==
    /\ sem_value = MaxConcurrent
    /\ sem_waiters = <<>>
    /\ active_requests = 0
    /\ slot_pc = [c \in SlotCallers |-> "out"]
    /\ slot_exits = {}

dispatchVars == <<mr_settings, mr_pc, mr_attempt, mr_calls, mr_log, mr_sleeps,
                  mr_result>>

\* what a call returns or raises
Returned(value) == [kind |-> "response", value |-> value]
Raised(e) == [kind |-> "error", value |-> e]

\* before any call of _make_request
DispatchInit ==
    /\ mr_settings = [retry_attempts |-> 0, retry_delay |-> 0]
    /\ mr_pc = "idle"
    /\ mr_attempt = 0
    /\ mr_calls = 0
    /\ mr_log = <<>>
    /\ mr_sleeps = <<>>
    /\ mr_result = Returned(None)

clientVars == <<sm_pc, sm_attempt, total_requests, error_count, sm_sent>>

\* ClaudeClient.__init__: the statistics start at 0, nobody is calling
ClaudeClientInit ==
    /\ sm_pc = [m \in Senders |-> "idle"]
    /\ sm_attempt = [m \in Senders |-> 0]
    /\ total_requests = 0
    /\ error_count = 0
    /\ sm_sent = 0

routerVars == <<clients, service_priority, rt_pc, rt_preferred, services_to_try,
                rt_index, rt_log, last_error, rt_result>>

\* no result: send_message has not returned or raised
NoResult == [kind |-> "none", service |-> None, content |-> None, error |-> None]

\* before MultiAIClient is constructed
RouterInit ==
    /\ clients = [service \in AIService |-> FALSE]
    /\ service_priority = <<>>
    /\ rt_pc = "unbuilt"
    /\ rt_preferred = None
    /\ services_to_try = <<>>
    /\ rt_index = 0
    /\ rt_log = <<>>
    /\ last_error = None
    /\ rt_result = NoResult

failoverVars == <<fo_retry_attempts, fo_attempt, fo_sleeping, fo_calls>>

\* before any call of send_message
FailoverInit ==
    /\ fo_retry_attempts = 0
    /\ fo_attempt = 0
    /\ fo_sleeping = FALSE
    /\ fo_calls = [service \in AIService |-> 0]

settingsVars == <<primary_ai_service, fallback_ai_service>>

\* Settings: the defaults of the two fields
SettingsInit ==
    /\ primary_ai_service = "openai"
    /\ fallback_ai_service = "claude"

poolVars == <<agent_type, pool_agents, agent_types>>

\* AgentPool.__init__
AgentPoolInit ==
    /\ pool_agents = {}
    /\ agent_types = [t \in AgentTypes |-> <<>>]

queryVars == <<query_ret>>

\* no status asked for yet
QueryInit == query_ret = <<>>

(***************************************************************************)
(* Pure helpers of BaseAgent                                               *)
(***************************************************************************)
\* priority_order in _insert_task_by_priority
priority_order(p) ==
    CASE p = CRITICAL -> 0
      [] p = HIGH -> 1
      [] p = MEDIUM -> 2
      [] p = LOW -> 3

\* insert_index with >= in the place of >: a task goes before its equals
insert_index_before_equals(queue, task) ==
    LET lower == {i \in 1..Len(queue) :
                    priority_order(queue[i].priority) >= priority_order(task.priority)}
    IN  IF lower = {} THEN Len(queue) + 1
        ELSE CHOOSE i \in lower : \A j \in lower : i <= j

\* the for loop of _insert_task_by_priority: the index (from 1) of the first
\* queued task of strictly lower priority, or one past the end
insert_index(queue, task) ==
    LET lower == {i \in 1..Len(queue) :
                    priority_order(queue[i].priority) > priority_order(task.priority)}
    IN  IF lower = {} THEN Len(queue) + 1
        ELSE CHOOSE i \in lower : \A j \in lower : i <= j

\* list.insert(index, task)
ListInsert(queue, i, task) ==
    SubSeq(queue, 1, i - 1) \o <<task>> \o SubSeq(queue, i, Len(queue))

_insert_task_by_priority(queue, task) ==
    ListInsert(queue, insert_index(queue, task), task)

\* completed_tasks in _check_dependencies
completed_tasks(history) ==
    {history[i].task_id : i \in {j \in 1..Len(history) : history[j].success}}

\* _check_dependencies without "if result.success": any result counts
_check_dependencies_any_result(history, task) ==
    \/ task.dependencies = {}
    \/ \A dependency \in task.dependencies :
          \E i \in 1..Len(history) : history[i].task_id = dependency

_check_dependencies(history, task) ==
    \/ task.dependencies = {}
    \/ \A dependency \in task.dependencies : dependency \in completed_tasks(history)

\* successful_tasks / len(results_history) in _update_statistics
successful_tasks(history) ==
    Cardinality({i \in 1..Len(history) : history[i].success})

\* the AgentResult _process_next_task appends for a task and an outcome
AgentResult(a, task, outcome, work) ==
    [task_id |-> task.task_id,
     agent_id |-> a,
     result_type |-> IF outcome = "raise" THEN "error" ELSE "result",
     success |-> (outcome = "ok"),
     error_message |-> IF outcome = "raise" THEN "str(e)" ELSE None,
     processing_time |-> IF outcome = "raise" THEN <<>> ELSE <<work.processing_time>>,
     quality_score |-> IF outcome = "raise" THEN <<>> ELSE work.quality_score]

\* [r.quality_score for r in results_history if r.quality_score is not None]
has_quality_score(r) == r.quality_score # <<>>
quality_scores(history) ==
    LET scored == SelectSeq(history, has_quality_score)
    IN  [i \in 1..Len(scored) |-> scored[i].quality_score[1]]

\* sum(quality_scores)
RECURSIVE sum(_)
sum(numbers) ==
    IF numbers = <<>> THEN 0 ELSE Head(numbers) + sum(Tail(numbers))

\* "if result.processing_time": neither None nor 0.0
truthy(processing_time) == processing_time # <<>> /\ processing_time # <<0>>

(***************************************************************************)
(* Operations of BaseAgent                                                 *)
(***************************************************************************)
\* add_task: runs to its return without suspending (_check_dependencies has
\* no suspending await).
add_task(a, in) ==
    LET task == AgentTask(in, submitted + 1) IN
    IF ~_check_dependencies(results_history[a], task)
    THEN /\ add_ret' = <<FALSE>>
         /\ UNCHANGED <<status, current_task, task_queue, results_history,
                        statistics, scheduled,
                        in_flight, submitted>>
    ELSE /\ task_queue' = [task_queue EXCEPT ![a] = _insert_task_by_priority(@, task)]
         /\ scheduled' = [scheduled EXCEPT ![a] =
                IF status[a] = IDLE /\ current_task[a] = NoTask THEN @ + 1 ELSE @]
         /\ submitted' = submitted + 1
         /\ add_ret' = <<TRUE>>
         /\ UNCHANGED <<status, current_task, results_history,
                        statistics, in_flight>>

\* the early return without the test of the status
nothing_to_process_queue_only(a) == task_queue[a] = <<>>

\* the early return of _process_next_task
nothing_to_process(a) == task_queue[a] = <<>> \/ status[a] # IDLE

\* task_queue[0] in the place of task_queue.pop(0): the head stays queued
pop_task_peek(queue) == [task |-> Head(queue), rest |-> queue]

\* task_queue.pop(0): the task taken and the queue left
pop_task(queue) == [task |-> Head(queue), rest |-> Tail(queue)]

\* _process_next_task from its start to the await of _process_task
_process_next_task(a) ==
    /\ scheduled[a] > 0
    /\ scheduled' = [scheduled EXCEPT ![a] = @ - 1]
    /\ IF nothing_to_process(a)
       THEN UNCHANGED <<status, current_task, task_queue, in_flight>>
       ELSE LET popped == pop_task(task_queue[a]) IN
            /\ task_queue' = [task_queue EXCEPT ![a] = popped.rest]
            /\ current_task' = [current_task EXCEPT ![a] = popped.task]
            /\ status' = [status EXCEPT ![a] = WORKING]
            /\ in_flight' = [in_flight EXCEPT ![a] = @ \cup {popped.task}]
    /\ UNCHANGED <<results_history, statistics,
                   submitted, add_ret>>

\* the statistics of an agent as one value
Statistics(completed, time, rate, quality) ==
    [total_tasks_completed |-> completed, total_processing_time |-> time,
     success_rate |-> rate, average_quality_score |-> quality]

\* the success rate taken over the tasks counted, not over the history
rate_over_completed(old, history) ==
    Fraction(successful_tasks(history), old.total_tasks_completed + 1)

\* successful_tasks / len(self.results_history)
rate_over_history(old, history) ==
    Fraction(successful_tasks(history), Len(history))

\* what _update_statistics makes of the statistics old, given the result and
\* the history (which holds the result already when _process_next_task calls)
updated_statistics(old, result, history) ==
    Statistics(
        old.total_tasks_completed + 1,
        IF truthy(result.processing_time)
        THEN old.total_processing_time + result.processing_time[1]
        ELSE old.total_processing_time,
        rate_over_history(old, history),
        IF quality_scores(history) # <<>>
        THEN Fraction(sum(quality_scores(history)), Len(quality_scores(history)))
        ELSE old.average_quality_score)

\* _update_statistics, called with the last result of history
_update_statistics(a, history) ==
    LET old == Statistics(total_tasks_completed[a], total_processing_time[a],
                          success_rate[a], average_quality_score[a])
        new == updated_statistics(old, history[Len(history)], history)
    IN  /\ total_tasks_completed' =
                [total_tasks_completed EXCEPT ![a] = new.total_tasks_completed]
        /\ total_processing_time' =
                [total_processing_time EXCEPT ![a] = new.total_processing_time]
        /\ success_rate' = [success_rate EXCEPT ![a] = new.success_rate]
        /\ average_quality_score' =
                [average_quality_score EXCEPT ![a] = new.average_quality_score]

\* the finally block without the create_task for the next task
reset_without_continue(a) ==
    /\ current_task' = [current_task EXCEPT ![a] = NoTask]
    /\ status' = [status EXCEPT ![a] = IDLE]
    /\ UNCHANGED scheduled

\* the finally block with AgentStatus.ERROR in the place of IDLE
reset_to_error_and_continue(a) ==
    /\ current_task' = [current_task EXCEPT ![a] = NoTask]
    /\ status' = [status EXCEPT ![a] = ERROR]
    /\ scheduled' = [scheduled EXCEPT ![a] = IF task_queue[a] # <<>> THEN @ + 1 ELSE @]

\* the finally block of _process_next_task
reset_and_continue(a) ==
    /\ current_task' = [current_task EXCEPT ![a] = NoTask]
    /\ status' = [status EXCEPT ![a] = IDLE]
    /\ scheduled' = [scheduled EXCEPT ![a] = IF task_queue[a] # <<>> THEN @ + 1 ELSE @]

\* _process_next_task from the return (or the exception) of _process_task to
\* its end: the rest of the try block or the except block, then finally
_process_task_ends(a, task, outcome, work) ==
    /\ task \in in_flight[a]
    /\ in_flight' = [in_flight EXCEPT ![a] = @ \ {task}]
    /\ LET history == Append(results_history[a], AgentResult(a, task, outcome, work)) IN
       /\ results_history' = [results_history EXCEPT ![a] = history]
       /\ IF outcome = "raise"
          THEN UNCHANGED statistics
          ELSE _update_statistics(a, history)
    /\ reset_and_continue(a)
    /\ UNCHANGED <<task_queue, submitted, add_ret>>

\* the same for work of one time unit that gives no quality_score
_process_task_done(a, task, outcome) == _process_task_ends(a, task, outcome, PlainWork)

\* pause without the test of the status
pause_in_any_status(a) ==
    /\ status' = [status EXCEPT ![a] = PAUSED]
    /\ UNCHANGED <<current_task, task_queue, results_history, statistics,
                   scheduled, in_flight, submitted, add_ret>>

pause(a) ==
    /\ status' = [status EXCEPT ![a] = IF @ = WORKING THEN PAUSED ELSE @]
    /\ UNCHANGED <<current_task, task_queue, results_history,
                   statistics, scheduled, in_flight,
                   submitted, add_ret>>

resume(a) ==
    /\ IF status[a] = PAUSED
       THEN /\ status' = [status EXCEPT ![a] = IDLE]
            /\ scheduled' = [scheduled EXCEPT ![a] =
                   IF task_queue[a] # <<>> /\ current_task[a] = NoTask THEN @ + 1 ELSE @]
       ELSE UNCHANGED <<status, scheduled>>
    /\ UNCHANGED <<current_task, task_queue, results_history,
                   statistics, in_flight, submitted, add_ret>>

\* clear_queue that drops the task in flight with the queued ones
clear_queue_and_current(a) ==
    /\ task_queue' = [task_queue EXCEPT ![a] = <<>>]
    /\ current_task' = [current_task EXCEPT ![a] = NoTask]
    /\ in_flight' = [in_flight EXCEPT ![a] = {}]
    /\ UNCHANGED <<status, results_history, statistics, scheduled, submitted,
                   add_ret>>

\* clear_queue: self.task_queue.clear()
clear_queue(a) ==
    /\ task_queue' = [task_queue EXCEPT ![a] = <<>>]
    /\ UNCHANGED <<status, current_task, results_history, statistics,
                   scheduled, in_flight, submitted, add_ret>>

\* priority_multipliers of estimate_processing_time, in tenths
priority_multipliers ==
    [p \in TaskPriority |->
        CASE p = LOW -> 8 [] p = MEDIUM -> 10 [] p = HIGH -> 13 [] p = CRITICAL -> 15]

\* the default estimate: 60.0
default_estimate == Fraction(60, 1)

\* estimate_processing_time for a task of priority p: what it returns
estimate_processing_time(a, p) ==
    IF total_tasks_completed[a] = 0
    THEN default_estimate
    ELSE Fraction(total_processing_time[a] * priority_multipliers[p],
                  total_tasks_completed[a] * 10)

(***************************************************************************)
(* RateLimiter.acquire: claude_client.py                                   *)
(***************************************************************************)
\* the purge: the entries with now - req_time < window_seconds
kept_in_window(age) == age < WindowSeconds
purged(requests) == SelectSeq(requests, kept_in_window)

\* the limit test with > in the place of >=
limit_reached_off_by_one(requests) == Len(requests) > MaxRequests

\* len(self.requests) >= self.max_requests
limit_reached(requests) == Len(requests) >= MaxRequests

\* window_seconds - (now - self.requests[0])
wait_time(requests) == WindowSeconds - requests[1]

\* The body of "async with self._lock", entered by caller c with the lock
\* taken: it ends in asyncio.sleep with the lock still held, or records the
\* request, leaves the with block (which releases the lock) and returns.
locked_section(c) ==
    LET requests == purged(rl_requests) IN
    IF limit_reached(requests) /\ wait_time(requests) > 0
    THEN /\ rl_requests' = requests
         /\ rl_lock' = c
         /\ rl_pc' = [rl_pc EXCEPT ![c] = "sleeping"]
         /\ rl_sleep' = [rl_sleep EXCEPT ![c] = wait_time(requests)]
         /\ UNCHANGED rl_recent
    ELSE /\ rl_requests' = Append(requests, 0)
         /\ rl_lock' = None
         /\ rl_pc' = [rl_pc EXCEPT ![c] = "idle"]
         /\ rl_recent' = Append(rl_recent, 0)
         /\ UNCHANGED rl_sleep

\* Entering acquire(): asyncio.Lock.acquire takes a free lock that nobody
\* waits for at once, and otherwise queues the caller behind the waiters.
enter_acquire(c) ==
    IF rl_lock = None /\ rl_waiters = <<>>
    THEN /\ locked_section(c)
         /\ UNCHANGED <<rl_waiters, rl_now>>
    ELSE /\ rl_waiters' = Append(rl_waiters, c)
         /\ rl_pc' = [rl_pc EXCEPT ![c] = "waiting"]
         /\ UNCHANGED <<rl_requests, rl_lock, rl_sleep, rl_now, rl_recent>>

\* a caller calls acquire()
acquire(c) ==
    /\ rl_pc[c] = "idle"
    /\ enter_acquire(c)

\* asyncio.Lock hands the released lock to its first waiter, which goes on
\* into the with block.  A caller waits only while another one sleeps inside
\* the with block, and that one never leaves it (LockNeverHandedOver): the
\* step is never enabled and is no disjunct of NextRateLimiter.
lock_acquired(c) ==
    /\ rl_pc[c] = "waiting"
    /\ rl_lock = None
    /\ rl_waiters # <<>>
    /\ Head(rl_waiters) = c
    /\ rl_waiters' = Tail(rl_waiters)
    /\ locked_section(c)
    /\ UNCHANGED rl_now

\* asyncio.sleep(wait_time) is over: "return await self.acquire()", called
\* inside the with block, that is with the lock still held by this caller
sleep_done(c) ==
    /\ rl_pc[c] = "sleeping"
    /\ rl_sleep[c] = 0
    /\ enter_acquire(c)

\* an admission that an observer still counts: younger than the window
StillRecent(age) == age < WindowSeconds

\* one unit of time passes: time.time() grows, sleeps get shorter
Older(age) == IF age < WindowSeconds THEN age + 1 ELSE age
time_passes ==
    /\ rl_now' = (rl_now + 1) % (WindowSeconds + 1)
    /\ rl_requests' = [i \in 1..Len(rl_requests) |-> Older(rl_requests[i])]
    /\ rl_sleep' = [c \in Callers |-> IF rl_sleep[c] > 0 THEN rl_sleep[c] - 1 ELSE 0]
    /\ rl_recent' = SelectSeq([i \in 1..Len(rl_recent) |-> Older(rl_recent[i])],
                            StillRecent)
    /\ UNCHANGED <<rl_lock, rl_waiters, rl_pc>>

(***************************************************************************)
(* RequestQueue.acquire_slot: claude_client.py                             *)
(*                                                                         *)
(* RequestQueue._lock is taken only around the increment and the decrement *)
(* of active_requests, which do not suspend: the lock is free whenever a   *)
(* coroutine asks for it, so "async with self._lock" never suspends and    *)
(* each action below runs through it.                                      *)
(***************************************************************************)
\* Semaphore.locked with the test of the counter left out
sem_locked_ignores_value ==
    \E i \in 1..Len(sem_waiters) : slot_pc[sem_waiters[i]] # "cancelled"

\* Semaphore.locked: the counter is 0 or a waiter's future is not cancelled
sem_locked ==
    \/ sem_value = 0
    \/ \E i \in 1..Len(sem_waiters) : slot_pc[sem_waiters[i]] # "cancelled"

\* the state of the semaphore an operation leaves: counter and callers
SemState(value, pc) == [value |-> value, pc |-> pc]

\* the index of the first waiter whose future is not done, or 0
first_not_done(waiters, pc) ==
    LET pending == {i \in 1..Len(waiters) : pc[waiters[i]] = "waiting"}
    IN  IF pending = {} THEN 0
        ELSE CHOOSE i \in pending : \A j \in pending : i <= j

\* Semaphore._wake_up_next that wakes nobody
sem_wake_up_nobody(value, waiters, pc) == SemState(value, pc)

\* Semaphore._wake_up_next: the first waiter whose future is not done gets
\* the result, and the counter is decremented on its behalf
sem_wake_up_next(value, waiters, pc) ==
    LET i == first_not_done(waiters, pc) IN
    IF i = 0 THEN SemState(value, pc)
    ELSE SemState(value - 1, [pc EXCEPT ![waiters[i]] = "woken"])

\* Semaphore.release that loses the slot
sem_release_lost(value, waiters, pc) == SemState(value, pc)

\* Semaphore.release
sem_release(value, waiters, pc) == sem_wake_up_next(value + 1, waiters, pc)

\* self._waiters.remove(fut)
without_waiter(waiters, c) ==
    SelectSeq(waiters, LAMBDA w : w # c)

\* available_slots read off the counter of the semaphore
available_slots_of_semaphore == sem_value

\* available_slots of get_queue_status
available_slots == MaxConcurrent - active_requests

\* A caller enters acquire_slot.  Semaphore.acquire returns at once when the
\* semaphore is not locked, and the caller goes on into the body; otherwise
\* its future is queued and it suspends.
acquire_slot(c) ==
    /\ slot_pc[c] = "out"
    /\ IF ~sem_locked
       THEN /\ sem_value' = sem_value - 1
            /\ active_requests' = active_requests + 1
            /\ slot_pc' = [slot_pc EXCEPT ![c] = "inside"]
            /\ UNCHANGED sem_waiters
       ELSE /\ sem_waiters' = Append(sem_waiters, c)
            /\ slot_pc' = [slot_pc EXCEPT ![c] = "waiting"]
            /\ UNCHANGED <<sem_value, active_requests>>
    /\ UNCHANGED slot_exits

\* A woken caller runs again: the rest of Semaphore.acquire (remove the
\* future, wake the next waiter if the counter is positive), then the
\* increment of active_requests, and the body starts.
slot_granted(c) ==
    /\ slot_pc[c] = "woken"
    /\ LET waiters == without_waiter(sem_waiters, c)
           after == IF sem_value > 0
                    THEN sem_wake_up_next(sem_value, waiters, slot_pc)
                    ELSE SemState(sem_value, slot_pc)
       IN  /\ sem_waiters' = waiters
           /\ sem_value' = after.value
           /\ slot_pc' = [after.pc EXCEPT ![c] = "inside"]
    /\ active_requests' = active_requests + 1
    /\ UNCHANGED slot_exits

\* The body of the scope is left on the given path: the finally block
\* decrements active_requests and the semaphore is released.
leave_slot(c, path) ==
    /\ slot_pc[c] = "inside"
    /\ active_requests' = active_requests - 1
    /\ LET after == sem_release(sem_value, sem_waiters, slot_pc)
       IN  /\ sem_value' = after.value
           /\ slot_pc' = [after.pc EXCEPT ![c] = "out"]
    /\ slot_exits' = slot_exits \cup {path}
    /\ UNCHANGED sem_waiters

\* Task.cancel() on a caller suspended in Semaphore.acquire: a pending
\* future is cancelled; with the future done already the cancellation is
\* kept for the task's next run.
cancel_waiter(c) ==
    /\ slot_pc[c] \in {"waiting", "woken"}
    /\ slot_pc' = [slot_pc EXCEPT ![c] =
                      IF @ = "waiting" THEN "cancelled" ELSE "woken_cancelled"]
    /\ UNCHANGED <<sem_value, sem_waiters, active_requests, slot_exits>>

\* A cancelled caller runs again: CancelledError comes out of "await fut";
\* the future is removed, and if it had the result already the slot it was
\* given goes back (the except block of Semaphore.acquire).
cancel_delivered(c) ==
    /\ slot_pc[c] \in {"cancelled", "woken_cancelled"}
    /\ LET waiters == without_waiter(sem_waiters, c)
           after == IF slot_pc[c] = "woken_cancelled"
                    THEN sem_wake_up_next(sem_value + 1, waiters, slot_pc)
                    ELSE SemState(sem_value, slot_pc)
       IN  /\ sem_waiters' = waiters
           /\ sem_value' = after.value
           /\ slot_pc' = [after.pc EXCEPT ![c] = "out"]
    /\ UNCHANGED <<active_requests, slot_exits>>

(***************************************************************************)
(* ClaudeClient._make_request: claude_client.py                            *)
(***************************************************************************)
\* the test for the last attempt, one attempt early
is_last_attempt_one_early(attempt, retry_attempts) == attempt >= retry_attempts - 2

\* attempt == settings.retry_attempts - 1
is_last_attempt(attempt, retry_attempts) == attempt = retry_attempts - 1

\* a delay that grows by retry_delay with each attempt
backoff_linear(retry_delay, attempt) == retry_delay * (attempt + 1)

\* wait_time = settings.retry_delay * (2 ** attempt)
backoff(retry_delay, attempt) == retry_delay * (2 ^ attempt)

\* _make_request is called: the loop starts with attempt 0 and awaits the
\* provider call (range(retry_attempts) is not empty: retry_attempts >= 1)
_make_request(retry_attempts, retry_delay) ==
    /\ mr_pc = "idle"
    /\ mr_settings' = [retry_attempts |-> retry_attempts, retry_delay |-> retry_delay]
    /\ mr_pc' = "calling"
    /\ mr_attempt' = 0
    /\ mr_calls' = 1
    /\ UNCHANGED <<mr_log, mr_sleeps, mr_result>>

\* the awaited provider call returns: "return await self._sync_request(...)"
attempt_returns(response) ==
    /\ mr_pc = "calling"
    /\ mr_log' = Append(mr_log, Returned(response))
    /\ mr_pc' = "returned"
    /\ mr_result' = Returned(response)
    /\ UNCHANGED <<mr_settings, mr_attempt, mr_calls, mr_sleeps>>

\* the awaited provider call raises e: the except block
attempt_raises(e) ==
    /\ mr_pc = "calling"
    /\ mr_log' = Append(mr_log, Raised(e))
    /\ IF is_last_attempt(mr_attempt, mr_settings.retry_attempts)
       THEN /\ mr_pc' = "raised"
            /\ mr_result' = Raised(e)
            /\ UNCHANGED mr_sleeps
       ELSE /\ mr_pc' = "sleeping"
            /\ mr_sleeps' = Append(mr_sleeps, backoff(mr_settings.retry_delay, mr_attempt))
            /\ UNCHANGED mr_result
    /\ UNCHANGED <<mr_settings, mr_attempt, mr_calls>>

\* asyncio.sleep(wait_time) is over: the loop goes on with the next attempt,
\* or ends, and the function returns None
retry_sleep_over ==
    /\ mr_pc = "sleeping"
    /\ mr_attempt' = mr_attempt + 1
    /\ IF mr_attempt + 1 < mr_settings.retry_attempts
       THEN /\ mr_pc' = "calling"
            /\ mr_calls' = mr_calls + 1
            /\ UNCHANGED mr_result
       ELSE /\ mr_pc' = "returned"
            /\ mr_result' = Returned(None)
            /\ UNCHANGED mr_calls
    /\ UNCHANGED <<mr_settings, mr_log, mr_sleeps>>

(***************************************************************************)
(* ClaudeClient.send_message: claude_client.py                             *)
(*                                                                         *)
(* An await of a coroutine that ends without suspending does not give the  *)
(* event loop a turn: a call runs from rate_limiter.acquire() on into      *)
(* acquire_slot() and into the provider call up to the first await that    *)
(* suspends.                                                               *)
(***************************************************************************)
\* "await self.rate_limiter.acquire()" taken to have returned in any case
admitted_unchecked(m) == TRUE

\* "await self.rate_limiter.acquire()" has returned for sender m
admitted(m) == rl_pc'[limiter_caller[m]] = "idle"

\* _make_request starts: attempt 0, the provider call is awaited
start_request(m) ==
    /\ sm_pc' = [sm_pc EXCEPT ![m] = "provider"]
    /\ sm_attempt' = [sm_attempt EXCEPT ![m] = 0]

\* "async with self.request_queue.acquire_slot()": with a slot at once the
\* body starts, otherwise the sender waits for a slot
enter_slot(m) ==
    /\ acquire_slot(slot_caller[m])
    /\ IF slot_pc'[slot_caller[m]] = "inside"
       THEN start_request(m)
       ELSE /\ sm_pc' = [sm_pc EXCEPT ![m] = "slot"]
            /\ UNCHANGED sm_attempt

\* what follows a step of rate_limiter.acquire() in send_message
after_acquire(m) ==
    IF admitted(m)
    THEN enter_slot(m)
    ELSE /\ sm_pc' = [sm_pc EXCEPT ![m] = "admission"]
         /\ UNCHANGED <<slotVars, sm_attempt>>

\* send_message is called
ClaudeClient_send_message(m) ==
    /\ sm_pc[m] = "idle"
    /\ sm_sent' = sm_sent + 1
    /\ acquire(limiter_caller[m])
    /\ after_acquire(m)
    /\ UNCHANGED <<total_requests, error_count>>

\* the sleep of a sender inside rate_limiter.acquire() is over
admission_sleep_done(m) ==
    /\ sm_pc[m] = "admission"
    /\ sleep_done(limiter_caller[m])
    /\ after_acquire(m)
    /\ UNCHANGED <<total_requests, error_count, sm_sent>>

\* a sender that waited for a slot is given one: the body starts
sender_slot_granted(m) ==
    /\ sm_pc[m] = "slot"
    /\ slot_granted(slot_caller[m])
    /\ start_request(m)
    /\ UNCHANGED <<rlVars, total_requests, error_count, sm_sent>>

\* the provider call returns: the statistics are updated, the response is
\* returned and the scope of the slot is left
provider_call_returns(m) ==
    /\ sm_pc[m] = "provider"
    /\ total_requests' = total_requests + 1
    /\ leave_slot(slot_caller[m], "return")
    /\ sm_pc' = [sm_pc EXCEPT ![m] = "idle"]
    /\ UNCHANGED <<rlVars, sm_attempt, error_count, sm_sent>>

\* the sleep between two attempts, taken outside the scope of the slot
retry_later_outside_slot(m) ==
    /\ sm_pc' = [sm_pc EXCEPT ![m] = "backoff"]
    /\ leave_slot(slot_caller[m], "raise")
    /\ UNCHANGED error_count

\* an attempt that is not the last one has failed: _make_request goes into
\* asyncio.sleep, still inside the body of "async with acquire_slot()"
retry_later(m) ==
    /\ sm_pc' = [sm_pc EXCEPT ![m] = "backoff"]
    /\ UNCHANGED <<slotVars, error_count>>

\* the provider call raises: _make_request sleeps before the next attempt,
\* or after the last one raises, the scope of the slot is left and the
\* except block of send_message counts the error and raises again
provider_call_raises(m) ==
    /\ sm_pc[m] = "provider"
    /\ IF is_last_attempt(sm_attempt[m], settings_retry_attempts)
       THEN /\ leave_slot(slot_caller[m], "raise")
            /\ error_count' = error_count + 1
            /\ sm_pc' = [sm_pc EXCEPT ![m] = "idle"]
       ELSE retry_later(m)
    /\ UNCHANGED <<rlVars, sm_attempt, total_requests, sm_sent>>

\* the sleep between two attempts is over: the next provider call is awaited
backoff_over(m) ==
    /\ sm_pc[m] = "backoff"
    /\ sm_pc' = [sm_pc EXCEPT ![m] = "provider"]
    /\ sm_attempt' = [sm_attempt EXCEPT ![m] = @ + 1]
    /\ UNCHANGED <<rlVars, slotVars, total_requests, error_count, sm_sent>>

\* ClaudeClient.get_statistics: the counters and the success rate
get_statistics ==
    [total_requests |-> total_requests,
     error_count |-> error_count,
     success_rate |-> Fraction(total_requests - error_count,
                               IF total_requests > 1 THEN total_requests ELSE 1)]

(***************************************************************************)
(* MultiAIClient: multi_ai_client.py                                       *)
(***************************************************************************)
\* list membership
InList(list, x) == \E i \in 1..Len(list) : list[i] = x

\* no service taken when the configured ones are not available
any_available_none(available) == <<>>

\* "if not priority": any available service, OpenAI first
any_available(available) ==
    (IF available[OPENAI] THEN <<OPENAI>> ELSE <<>>)
        \o (IF available[CLAUDE] THEN <<CLAUDE>> ELSE <<>>)

\* _determine_service_priority
_determine_service_priority(available, primary, fallback) ==
    LET main == IF primary = "openai" /\ available[OPENAI] THEN <<OPENAI>>
                ELSE IF primary = "claude" /\ available[CLAUDE] THEN <<CLAUDE>>
                ELSE <<>>
        priority ==
                IF fallback = "claude" /\ available[CLAUDE] /\ ~InList(main, CLAUDE)
                THEN Append(main, CLAUDE)
                ELSE IF fallback = "openai" /\ available[OPENAI] /\ ~InList(main, OPENAI)
                THEN Append(main, OPENAI)
                ELSE main
    IN  IF priority # <<>> THEN priority ELSE any_available(available)

\* MultiAIClient.__init__: a client is held for each service whose key is set
\* and whose client could be constructed; with none, ValueError is raised
MultiAIClient_init(available, primary, fallback) ==
    /\ rt_pc = "unbuilt"
    /\ IF \A service \in AIService : ~available[service]
       THEN /\ rt_pc' = "init_failed"
            /\ UNCHANGED <<clients, service_priority>>
       ELSE /\ rt_pc' = "ready"
            /\ clients' = available
            /\ service_priority' = _determine_service_priority(available, primary, fallback)
    /\ UNCHANGED <<rt_preferred, services_to_try, rt_index, rt_log, last_error,
                   rt_result>>

_is_service_available(service) == service \in AIService /\ clients[service]

\* the loop over service_priority without "if service not in services_to_try"
append_all(first, priority) == first \o priority

\* the loop that adds the default priority to services_to_try
append_missing(first, priority) ==
    first \o SelectSeq(priority, LAMBDA service : ~InList(first, service))

\* services_to_try as send_message builds it
build_services_to_try(preferred) ==
    append_missing(IF preferred # None /\ _is_service_available(preferred)
                   THEN <<preferred>> ELSE <<>>,
                   service_priority)

\* "last_error = e" that keeps the first error
keep_first_error(previous, e) == IF previous = None THEN e ELSE previous

\* last_error = e
keep_last_error(previous, e) == e

\* Exception(f"All AI services failed. Last error: {last_error}"); an error
\* is written as its text
all_services_failed(error) ==
    [type |-> "Exception",
     message |-> <<"All AI services failed. Last error: ", error>>]

\* The for loop from position i on, up to the next await or the end: a
\* service without client is passed over; a service with a client is called
\* and awaited; after the last service the final raise is reached.
loop_from(to_try, i, error) ==
    LET waiting == {j \in i..Len(to_try) : clients[to_try[j]]}
    IN  IF waiting # {}
        THEN /\ rt_index' = CHOOSE j \in waiting : \A k \in waiting : j <= k
             /\ rt_pc' = "trying"
             /\ rt_result' = NoResult
        ELSE /\ rt_index' = Len(to_try) + 1
             /\ rt_pc' = "raised"
             /\ rt_result' = [kind |-> "error", service |-> None, content |-> None,
                              error |-> all_services_failed(error)]

\* send_message up to its first await
send_message(preferred) ==
    /\ rt_pc \in {"ready", "returned", "raised"}
    /\ rt_preferred' = preferred
    /\ services_to_try' = build_services_to_try(preferred)
    /\ rt_log' = <<>>
    /\ last_error' = None
    /\ loop_from(build_services_to_try(preferred), 1, None)
    /\ UNCHANGED <<clients, service_priority>>

\* the awaited provider returns: its response is returned in the unified
\* shape, with the service that answered
provider_returns(response) ==
    /\ rt_pc = "trying"
    /\ LET service == services_to_try[rt_index] IN
       /\ rt_log' = Append(rt_log, [service |-> service, kind |-> "response",
                                    value |-> response])
       /\ rt_result' = [kind |-> "response", service |-> service,
                        content |-> response, error |-> None]
    /\ rt_pc' = "returned"
    /\ UNCHANGED <<clients, service_priority, rt_preferred, services_to_try,
                   rt_index, last_error>>

\* the awaited provider raises e: the except block, then the loop goes on
provider_raises(e) ==
    /\ rt_pc = "trying"
    /\ rt_log' = Append(rt_log, [service |-> services_to_try[rt_index],
                                 kind |-> "error", value |-> e])
    /\ last_error' = keep_last_error(last_error, e)
    /\ loop_from(services_to_try, rt_index + 1, keep_last_error(last_error, e))
    /\ UNCHANGED <<clients, service_priority, rt_preferred, services_to_try>>

(***************************************************************************)
(* MultiAIClient.send_message with the retry loops of the providers        *)
(***************************************************************************)
\* a retry loop that goes on from the attempt the loop before it reached
first_attempt_carried_over(previous) == previous

\* "for attempt in range(settings.retry_attempts)": every loop starts at 0
first_attempt(previous) == 0

\* whether a failed attempt is the last one of its provider: OpenAIClient
\* sleeps and goes on "if attempt < settings.retry_attempts - 1",
\* ClaudeClient raises "if attempt == settings.retry_attempts - 1"
gives_up(service, attempt, retry_attempts) ==
    IF service = CLAUDE
    THEN is_last_attempt(attempt, retry_attempts)
    ELSE ~(attempt < retry_attempts - 1)

\* what a step of the router's loop means for the providers: a provider it
\* has got to is called, its retry loop starts and makes its first API call
enter_provider(calls) ==
    /\ fo_sleeping' = FALSE
    /\ IF rt_pc' = "trying"
       THEN /\ fo_attempt' = first_attempt(fo_attempt)
            /\ fo_calls' = [calls EXCEPT ![services_to_try'[rt_index']] = @ + 1]
       ELSE /\ fo_calls' = calls
            /\ UNCHANGED fo_attempt

\* MultiAIClient.send_message is called, with settings.retry_attempts set
failover_send_message(preferred, retry_attempts) ==
    /\ send_message(preferred)
    /\ fo_retry_attempts' = retry_attempts
    /\ enter_provider([service \in AIService |-> 0])

\* the API call of the provider awaited returns: the provider returns the
\* response, and the router returns it
api_call_returns(response) ==
    /\ ~fo_sleeping
    /\ provider_returns(response)
    /\ UNCHANGED failoverVars

\* the API call of the provider awaited raises e: the provider sleeps before
\* its next attempt, or after its last one raises e to the router, whose
\* loop goes on
api_call_raises(e) ==
    /\ rt_pc = "trying"
    /\ ~fo_sleeping
    /\ IF gives_up(services_to_try[rt_index], fo_attempt, fo_retry_attempts)
       THEN /\ provider_raises(e)
            /\ enter_provider(fo_calls)
       ELSE /\ fo_sleeping' = TRUE
            /\ UNCHANGED <<routerVars, fo_attempt, fo_calls>>
    /\ UNCHANGED fo_retry_attempts

\* the sleep between two attempts is over: the next API call is made
provider_sleep_over ==
    /\ rt_pc = "trying"
    /\ fo_sleeping
    /\ fo_sleeping' = FALSE
    /\ fo_attempt' = fo_attempt + 1
    /\ fo_calls' = [fo_calls EXCEPT ![services_to_try[rt_index]] = @ + 1]
    /\ UNCHANGED <<routerVars, fo_retry_attempts>>

(***************************************************************************)
(* AgentPool: base_agent.py                                                *)
(***************************************************************************)
register_agent(a) ==
    /\ pool_agents' = pool_agents \cup {a}
    /\ agent_types' = [agent_types EXCEPT ![agent_type[a]] = Append(@, a)]
    /\ UNCHANGED agent_type

\* agent.status == AgentStatus.IDLE and not agent.current_task
is_free(a) == status[a] = IDLE /\ current_task[a] = NoTask

\* the for loop of get_available_agent: the index of the first agent of the
\* list that is free, or 0
first_free(agents) ==
    LET free == {i \in 1..Len(agents) : is_free(agents[i])}
    IN  IF free = {} THEN 0 ELSE CHOOSE i \in free : \A j \in free : i <= j

\* the first agent of the list in the place of the minimum
first_listed(agents) == agents[1]

\* min(agents, key=lambda a: len(a.task_queue)): the first agent of the list
\* whose queue is as short as any
shortest_queue(agents) ==
    LET least == {i \in 1..Len(agents) :
                    \A j \in 1..Len(agents) :
                        Len(task_queue[agents[i]]) <= Len(task_queue[agents[j]])}
    IN  agents[CHOOSE i \in least : \A j \in least : i <= j]

\* the value get_available_agent(t) returns
available_agent(t) ==
    LET agents == agent_types[t] IN
    IF first_free(agents) # 0 THEN agents[first_free(agents)]
    ELSE IF agents # <<>> THEN shortest_queue(agents)
    ELSE None

\* get_available_agent(t) returns available_agent(t) and changes nothing
get_available_agent(t) ==
    /\ available_agent(t) \in Agents \cup {None}
    /\ UNCHANGED <<agent_type, pool_agents, agent_types>>

(***************************************************************************)
(* get_status and get_pool_status: base_agent.py                           *)
(***************************************************************************)
\* max(self.total_tasks_completed, 1)
at_least_one(n) == IF n > 1 THEN n ELSE 1

\* the dict get_status returns (capabilities, a list fixed at construction,
\* is left out)
agent_status(a) ==
    [agent_id |-> a,
     agent_type |-> agent_type[a],
     status |-> status[a],
     current_task |-> current_task[a].task_id,
     queue_size |-> Len(task_queue[a]),
     statistics |->
        [total_tasks_completed |-> total_tasks_completed[a],
         success_rate |-> success_rate[a],
         average_processing_time |->
            Fraction(total_processing_time[a], at_least_one(total_tasks_completed[a])),
         average_quality_score |-> average_quality_score[a]]]

\* get_status that takes the current task off the agent
get_status_taking_task(a) ==
    /\ query_ret' = <<agent_status(a)>>
    /\ current_task' = [current_task EXCEPT ![a] = NoTask]
    /\ UNCHANGED <<status, task_queue, results_history, statistics, scheduled,
                   in_flight, submitted, add_ret, poolVars>>

\* get_status: builds the dict and returns it
get_status(a) ==
    /\ query_ret' = <<agent_status(a)>>
    /\ UNCHANGED <<agentVars, poolVars>>

\* sum(1 for a in agents if a.status == s)
count_status(agents, s) ==
    Cardinality({i \in 1..Len(agents) : status[agents[i]] = s})

\* sum(len(a.task_queue) for a in agents)
RECURSIVE queued_tasks(_)
queued_tasks(agents) ==
    IF agents = <<>> THEN 0
    ELSE Len(task_queue[Head(agents)]) + queued_tasks(Tail(agents))

\* type_status of get_pool_status for the list of agents of one type
type_status(agents) ==
    [count |-> Len(agents),
     idle |-> count_status(agents, IDLE),
     working |-> count_status(agents, WORKING),
     average_queue_size |-> Fraction(queued_tasks(agents), Len(agents))]

\* the keys of AgentPool.agent_types: the types an agent was registered with
registered_types == {t \in AgentTypes : agent_types[t] # <<>>}

\* the keys of overall_stats
overall_keys == {IDLE, WORKING, PAUSED, ERROR}

\* the dict get_pool_status returns: every entry of every list of
\* agent_types adds one to the count of its status
pool_status ==
    [total_agents |-> Cardinality(pool_agents),
     agent_types |-> [t \in registered_types |-> type_status(agent_types[t])],
     overall_stats |->
        [s \in overall_keys |->
            count_status(agent_types["geometry_agent"], s)
               + count_status(agent_types["material_agent"], s)]]

\* get_pool_status: builds the dict and returns it
get_pool_status ==
    /\ query_ret' = <<pool_status>>
    /\ UNCHANGED <<agentVars, poolVars>>

(***************************************************************************)
(* Specifications                                                          *)
(***************************************************************************)
vars == <<agentVars, rlVars, slotVars, dispatchVars, clientVars, routerVars,
          poolVars, queryVars, failoverVars, settingsVars>>

\* what the operations of one component leave alone: the other components
notAgentVars ==
    <<rlVars, slotVars, dispatchVars, routerVars, poolVars, clientVars,
      queryVars, failoverVars, settingsVars>>
notRlVars ==
    <<agentVars, slotVars, dispatchVars, routerVars, poolVars, clientVars,
      queryVars, failoverVars, settingsVars>>
notSlotVars ==
    <<agentVars, rlVars, dispatchVars, routerVars, poolVars, clientVars,
      queryVars, failoverVars, settingsVars>>
notDispatchVars ==
    <<agentVars, rlVars, slotVars, routerVars, poolVars, clientVars,
      queryVars, failoverVars, settingsVars>>
notRouterVars ==
    <<agentVars, rlVars, slotVars, dispatchVars, poolVars, clientVars,
      queryVars, failoverVars, settingsVars>>
notPoolVars ==
    <<agentVars, rlVars, slotVars, dispatchVars, routerVars, clientVars,
      queryVars, failoverVars, settingsVars>>

\* a send_message call works on the client, its limiter and its slots
notClientVars ==
    <<agentVars, dispatchVars, routerVars, poolVars, queryVars, failoverVars,
      settingsVars>>

\* a query reads the agents and the pool
notQueryVars ==
    <<rlVars, slotVars, dispatchVars, clientVars, routerVars, failoverVars,
      settingsVars>>

\* a send_message call with its providers works on the router and the loops
notFailoverVars ==
    <<agentVars, rlVars, slotVars, dispatchVars, clientVars, poolVars, queryVars,
      settingsVars>>

\* everything but the agents' types and the settings
ComponentsInit ==
    /\ AgentInit /\ RateLimiterInit /\ RequestQueueInit /\ DispatchInit
    /\ ClaudeClientInit /\ RouterInit /\ AgentPoolInit /\ QueryInit
    /\ FailoverInit

\* agents of one type (only the pool reads the type of an agent)
Init ==
    /\ ComponentsInit
    /\ SettingsInit
    /\ agent_type = [a \in Agents |-> "geometry_agent"]

\* agents of any types
InitAnyTypes ==
    /\ ComponentsInit
    /\ SettingsInit
    /\ agent_type \in [Agents -> AgentTypes]

\* any values of the two settings
InitAnySettings ==
    /\ ComponentsInit
    /\ primary_ai_service \in ServiceSettings
    /\ fallback_ai_service \in ServiceSettings
    /\ agent_type = [a \in Agents |-> "geometry_agent"]

\* the one agent of the single-agent specifications
Solo == {"a1"}

\* add_task by any caller; cap bounds the accepted submissions of a run
AddTask(agents, cap) ==
    /\ \E a \in agents, in \in TaskInputs :
          /\ _check_dependencies(results_history[a], AgentTask(in, submitted + 1))
                => submitted < cap
          /\ add_task(a, in)
    /\ UNCHANGED notAgentVars

\* the event loop starts a scheduled _process_next_task
ProcessNextTask(agents) ==
    /\ \E a \in agents : _process_next_task(a)
    /\ UNCHANGED notAgentVars

\* the work of a task in flight returns or raises
ProcessTaskDone(agents) ==
    /\ \E a \in agents : \E task \in in_flight[a], outcome \in Outcomes :
          _process_task_done(a, task, outcome)
    /\ UNCHANGED notAgentVars

Pause(agents) ==
    /\ \E a \in agents : pause(a)
    /\ UNCHANGED notAgentVars

Resume(agents) ==
    /\ \E a \in agents : resume(a)
    /\ UNCHANGED notAgentVars

ClearQueue(agents) ==
    /\ \E a \in agents : clear_queue(a)
    /\ UNCHANGED notAgentVars

\* one agent under every interleaving of its operations
Next ==
    \/ AddTask(Solo, MaxSubmit)
    \/ ProcessNextTask(Solo)
    \/ ProcessTaskDone(Solo)
    \/ Pause(Solo)
    \/ Resume(Solo)
    \/ ClearQueue(Solo)

Spec == Init /\ [][Next]_vars

\* The event loop runs every scheduled _process_next_task, and the work of
\* every task returns or raises after a finite time.
FairSpec ==
    /\ Spec
    /\ WF_vars(ProcessNextTask(Solo))
    /\ WF_vars(ProcessTaskDone(Solo))

\* one agent whose queue is never cleared
NextNoClear ==
    \/ AddTask(Solo, MaxLiveSubmit)
    \/ ProcessNextTask(Solo)
    \/ ProcessTaskDone(Solo)
    \/ Pause(Solo)
    \/ Resume(Solo)

\* The agent without clear_queue, under the scheduling of FairSpec: every
\* scheduled _process_next_task runs and every work invocation ends.
FairSpecNoClear ==
    /\ Init /\ [][NextNoClear]_vars
    /\ WF_vars(ProcessNextTask(Solo))
    /\ WF_vars(ProcessTaskDone(Solo))

\* one agent whose queue is cleared at any time
NextWithClear ==
    \/ NextNoClear
    \/ ClearQueue(Solo)

\* The agent with clear_queue, under the scheduling of FairSpec
FairSpecWithClear ==
    /\ Init /\ [][NextWithClear]_vars
    /\ WF_vars(ProcessNextTask(Solo))
    /\ WF_vars(ProcessTaskDone(Solo))

\* the work of a task in flight returns or raises, after any time and with
\* any quality_score
ProcessTaskEnds(agents) ==
    /\ \E a \in agents : \E task \in in_flight[a], outcome \in Outcomes, work \in Works :
          _process_task_ends(a, task, outcome, work)
    /\ UNCHANGED notAgentVars

\* _update_statistics is called once more for the latest result, with the
\* history as it is
UpdateStatistics(agents) ==
    /\ \E a \in agents :
          /\ results_history[a] # <<>>
          /\ total_tasks_completed[a] < MaxCompleted
          /\ _update_statistics(a, results_history[a])
          /\ UNCHANGED <<status, current_task, task_queue, results_history,
                         scheduled, in_flight, submitted, add_ret>>
    /\ UNCHANGED notAgentVars

\* estimate_processing_time returns, for any task, and changes nothing
EstimateProcessingTime(agents) ==
    /\ \E a \in agents, p \in TaskPriority :
          estimate_processing_time(a, p) \in [num : Nat, den : Nat]
    /\ UNCHANGED vars

\* add_task for a task without dependencies
MeasuredAddTask ==
    /\ submitted < MaxMeasured
    /\ \E a \in Solo, in \in {TaskInput("x", LOW, {})} : add_task(a, in)
    /\ UNCHANGED notAgentVars

\* one agent whose tasks take different times and give different scores
NextMeasured ==
    \/ MeasuredAddTask
    \/ ProcessNextTask(Solo)
    \/ ProcessTaskEnds(Solo)
    \/ UpdateStatistics(Solo)

SpecMeasured == Init /\ [][NextMeasured]_vars

\* the same agent, asked for estimates, whose statistics only
\* _process_next_task updates
NextEstimate ==
    \/ MeasuredAddTask
    \/ ProcessNextTask(Solo)
    \/ ProcessTaskEnds(Solo)
    \/ EstimateProcessingTime(Solo)

SpecEstimate == Init /\ [][NextEstimate]_vars

\* one agent that is never paused or resumed
NextNoPause ==
    \/ AddTask(Solo, MaxSubmit)
    \/ ProcessNextTask(Solo)
    \/ ProcessTaskDone(Solo)
    \/ ClearQueue(Solo)

SpecNoPause == Init /\ [][NextNoPause]_vars

\* two agents, each with its own queue and history
NextTwoAgents ==
    \/ AddTask(Agents, MaxPoolSubmit)
    \/ ProcessNextTask(Agents)
    \/ ProcessTaskDone(Agents)
    \/ Pause(Agents)
    \/ Resume(Agents)
    \/ ClearQueue(Agents)

SpecTwoAgents == Init /\ [][NextTwoAgents]_vars

\* the rate limiter and its callers
Acquire == (\E c \in Callers : acquire(c)) /\ UNCHANGED notRlVars
SleepDone == (\E c \in Callers : sleep_done(c)) /\ UNCHANGED notRlVars
TimePasses == time_passes /\ UNCHANGED notRlVars

NextRateLimiter ==
    \/ Acquire
    \/ SleepDone
    \/ TimePasses

SpecRateLimiter == Init /\ [][NextRateLimiter]_vars

\* The event loop runs every coroutine that can run, and time goes on.
FairSpecRateLimiter ==
    /\ SpecRateLimiter
    /\ WF_vars(SleepDone)
    /\ WF_vars(TimePasses)

\* the slot manager and its callers
AcquireSlot == (\E c \in SlotCallers : acquire_slot(c)) /\ UNCHANGED notSlotVars
SlotGranted(c) == slot_granted(c) /\ UNCHANGED notSlotVars
LeaveSlot(c, paths) ==
    (\E path \in paths : leave_slot(c, path)) /\ UNCHANGED notSlotVars
CancelWaiter == (\E c \in SlotCallers : cancel_waiter(c)) /\ UNCHANGED notSlotVars
CancelDelivered ==
    (\E c \in SlotCallers : cancel_delivered(c)) /\ UNCHANGED notSlotVars

\* callers that come and go, that fail and that are cancelled at any time
NextSlots ==
    \/ AcquireSlot
    \/ \E c \in SlotCallers : SlotGranted(c)
    \/ \E c \in SlotCallers : LeaveSlot(c, ExitPaths)
    \/ CancelWaiter
    \/ CancelDelivered

SpecSlots == Init /\ [][NextSlots]_vars

\* callers that are not cancelled
NextSlotsNoCancel ==
    \/ AcquireSlot
    \/ \E c \in SlotCallers : SlotGranted(c)
    \/ \E c \in SlotCallers : LeaveSlot(c, {"return", "raise"})

\* The event loop runs every woken caller, and every caller in the body of
\* the scope leaves it after a finite time.
FairSpecSlots ==
    /\ Init /\ [][NextSlotsNoCancel]_vars
    /\ \A c \in SlotCallers : WF_vars(SlotGranted(c))
    /\ \A c \in SlotCallers : WF_vars(LeaveSlot(c, {"return", "raise"}))

\* one call of _make_request under every behaviour of the provider
MakeRequest ==
    /\ \E retry_attempts \in 1..MaxAttempts, retry_delay \in RetryDelays :
          _make_request(retry_attempts, retry_delay)
    /\ UNCHANGED notDispatchVars
AttemptReturns ==
    (\E response \in Responses : attempt_returns(response)) /\ UNCHANGED notDispatchVars
AttemptRaises == (\E e \in Errors : attempt_raises(e)) /\ UNCHANGED notDispatchVars
RetrySleepOver == retry_sleep_over /\ UNCHANGED notDispatchVars

NextDispatch ==
    \/ MakeRequest
    \/ AttemptReturns
    \/ AttemptRaises
    \/ RetrySleepOver

SpecDispatch == Init /\ [][NextDispatch]_vars

\* a MultiAIClient, its construction and its calls, one at a time
MultiAIClientInit ==
    /\ \E available \in [AIService -> BOOLEAN], primary, fallback \in ServiceSettings :
          MultiAIClient_init(available, primary, fallback)
    /\ UNCHANGED notRouterVars
SendMessage ==
    (\E preferred \in AIService \cup {None} : send_message(preferred))
        /\ UNCHANGED notRouterVars
ProviderReturns ==
    (\E response \in Responses : provider_returns(response)) /\ UNCHANGED notRouterVars
ProviderRaises == (\E e \in Errors : provider_raises(e)) /\ UNCHANGED notRouterVars

NextRouter ==
    \/ MultiAIClientInit
    \/ SendMessage
    \/ ProviderReturns
    \/ ProviderRaises

SpecRouter == Init /\ [][NextRouter]_vars

\* a MultiAIClient constructed under the settings as they are, whatever
\* clients can be constructed, and its calls
ConstructMultiAIClient ==
    /\ \E available \in [AIService -> BOOLEAN] :
          MultiAIClient_init(available, primary_ai_service, fallback_ai_service)
    /\ UNCHANGED notRouterVars

NextPriority ==
    \/ ConstructMultiAIClient
    \/ SendMessage
    \/ ProviderReturns
    \/ ProviderRaises

SpecPriority == InitAnySettings /\ [][NextPriority]_vars

\* one MultiAIClient whose providers retry, under every behaviour of the APIs
FailoverSendMessage ==
    /\ \E preferred \in AIService \cup {None}, retry_attempts \in 1..MaxAttempts :
          failover_send_message(preferred, retry_attempts)
    /\ UNCHANGED notFailoverVars
ApiCallReturns ==
    (\E response \in Responses : api_call_returns(response)) /\ UNCHANGED notFailoverVars
ApiCallRaises == (\E e \in Errors : api_call_raises(e)) /\ UNCHANGED notFailoverVars
ProviderSleepOver == provider_sleep_over /\ UNCHANGED notFailoverVars

NextFailover ==
    \/ MultiAIClientInit
    \/ FailoverSendMessage
    \/ ApiCallReturns
    \/ ApiCallRaises
    \/ ProviderSleepOver

SpecFailover == Init /\ [][NextFailover]_vars

\* senders that call send_message on one client while time goes on
ClaudeSendMessage ==
    /\ sm_sent < MaxSends
    /\ \E m \in Senders : ClaudeClient_send_message(m)
    /\ UNCHANGED notClientVars
AdmissionSleepDone ==
    (\E m \in Senders : admission_sleep_done(m)) /\ UNCHANGED notClientVars
SenderSlotGranted ==
    (\E m \in Senders : sender_slot_granted(m)) /\ UNCHANGED notClientVars
ProviderCallReturns ==
    (\E m \in Senders : provider_call_returns(m)) /\ UNCHANGED notClientVars
ProviderCallRaises ==
    (\E m \in Senders : provider_call_raises(m)) /\ UNCHANGED notClientVars
BackoffOver ==
    (\E m \in Senders : backoff_over(m)) /\ UNCHANGED notClientVars
ClientTimePasses ==
    time_passes /\ UNCHANGED <<slotVars, clientVars, notClientVars>>

NextClient ==
    \/ ClaudeSendMessage
    \/ AdmissionSleepDone
    \/ SenderSlotGranted
    \/ ProviderCallReturns
    \/ ProviderCallRaises
    \/ BackoffOver
    \/ ClientTimePasses

SpecClient == Init /\ [][NextClient]_vars

\* a pool of agents: agents are registered (an agent may be registered
\* again), work on tasks without dependencies that succeed, are paused and
\* resumed, and callers ask the pool for an agent
PoolTaskInputs == {TaskInput("x", LOW, {})}

RegisterAgent ==
    /\ Len(agent_types["geometry_agent"]) + Len(agent_types["material_agent"])
          < MaxRegister
    /\ \E a \in Agents : register_agent(a)
    /\ UNCHANGED notPoolVars
GetAvailableAgent ==
    (\E t \in AgentTypes : get_available_agent(t)) /\ UNCHANGED notPoolVars
PoolAddTask ==
    /\ submitted < MaxPoolTasks
    /\ \E a \in Agents, in \in PoolTaskInputs : add_task(a, in)
    /\ UNCHANGED notAgentVars
PoolTaskDone ==
    /\ \E a \in Agents : \E task \in in_flight[a] : _process_task_done(a, task, "ok")
    /\ UNCHANGED notAgentVars

NextPool ==
    \/ RegisterAgent
    \/ GetAvailableAgent
    \/ PoolAddTask
    \/ ProcessNextTask(Agents)
    \/ PoolTaskDone
    \/ Pause(Agents)
    \/ Resume(Agents)

SpecPool == InitAnyTypes /\ [][NextPool]_vars

\* the pool and its agents, asked for their status at any time
QueryAddTask ==
    /\ submitted < MaxQueryTasks
    /\ \E a \in Agents, in \in PoolTaskInputs : add_task(a, in)
    /\ UNCHANGED notAgentVars
QueryTaskEnds ==
    /\ \E a \in Agents : \E task \in in_flight[a], outcome \in Outcomes :
          _process_task_ends(a, task, outcome, Work(2, <<8>>))
    /\ UNCHANGED notAgentVars
GetStatus == (\E a \in Agents : get_status(a)) /\ UNCHANGED notQueryVars
GetPoolStatus == get_pool_status /\ UNCHANGED notQueryVars

NextQueries ==
    \/ RegisterAgent
    \/ QueryAddTask
    \/ ProcessNextTask(Agents)
    \/ QueryTaskEnds
    \/ Pause(Agents)
    \/ Resume(Agents)
    \/ GetStatus
    \/ GetPoolStatus

SpecQueries == InitAnyTypes /\ [][NextQueries]_vars

(***************************************************************************)
(* Properties                                                              *)
(***************************************************************************)
\* A lock that callers wait for is held: RateLimiter._lock is never handed
\* from one caller to the next.
LockNeverHandedOver == rl_waiters # <<>> => rl_lock # None

\* TaskPriority as the specification orders it: CRITICAL > HIGH > MEDIUM > LOW
Urgency(p) ==
    CASE p = CRITICAL -> 4
      [] p = HIGH -> 3
      [] p = MEDIUM -> 2
      [] p = LOW -> 1

\* t is served before u: higher priority, or equal priority and submitted earlier
Before(t, u) ==
    \/ Urgency(t.priority) > Urgency(u.priority)
    \/ Urgency(t.priority) = Urgency(u.priority) /\ t.seq < u.seq

QueueOrdered(queue) ==
    \A i, j \in 1..Len(queue) : i < j => Before(queue[i], queue[j])

\* the tasks agent a starts to execute in a step
Started(a) == in_flight'[a] \ in_flight[a]

\* agent a's history holds a successful result for task id d
HasSuccess(a, d) ==
    \E i \in 1..Len(results_history[a]) :
        results_history[a][i].task_id = d /\ results_history[a][i].success

\* agent a's history holds a failed result for task id d
HasFailure(a, d) ==
    \E i \in 1..Len(results_history[a]) :
        results_history[a][i].task_id = d /\ ~results_history[a][i].success

DepsMet(a, deps) == \A d \in deps : HasSuccess(a, d)

\* C1: without pause and resume, at most one _process_task of an agent is in
\* flight in every state, and a step taken while the agent is not IDLE
\* starts no task.
C1_SingleFlightWithoutPause ==
    /\ [](\A a \in Agents : Cardinality(in_flight[a]) <= 1)
    /\ [][\A a \in Agents : status[a] # IDLE => Started(a) = {}]_vars

\* C1 witness: a task is in flight while another _process_next_task is
\* scheduled and a task is queued for it.
C1_Witness ==
    \E a \in Agents :
        /\ Cardinality(in_flight[a]) = 1
        /\ scheduled[a] > 0
        /\ task_queue[a] # <<>>

\* C2: with pause and resume too, never two tasks of one agent execute at
\* the same time.
C2_AtMostOneExecuting ==
    \A a \in Agents : ~(\E t, u \in in_flight[a] : t # u)

\* C3: the queue is always ordered by priority (CRITICAL first) and, within
\* a priority, by submission; the task a dequeue takes is in the queue and
\* is before every other queued task in that order.
C3_PriorityThenArrival ==
    /\ [](\A a \in Agents : QueueOrdered(task_queue[a]))
    /\ [][\A a \in Agents : \A t \in Started(a) :
            /\ \E i \in 1..Len(task_queue[a]) : task_queue[a][i] = t
            /\ \A i \in 1..Len(task_queue[a]) :
                  task_queue[a][i] # t => Before(t, task_queue[a][i])
            /\ Len(task_queue'[a]) = Len(task_queue[a]) - 1]_vars

\* C3 witness: the task in flight was dequeued ahead of a later task of its
\* priority and of an earlier task of lower priority, both still queued.
C3_Witness ==
    \E a \in Agents : \E t \in in_flight[a] :
        /\ Len(task_queue[a]) = 2
        /\ task_queue[a][1].priority = t.priority
        /\ task_queue[a][1].seq > t.seq
        /\ Urgency(task_queue[a][2].priority) < Urgency(t.priority)
        /\ task_queue[a][2].seq < t.seq

\* C4: an add_task whose task has a dependency without successful result in
\* the agent's own history returns False and changes nothing of the agent;
\* any other add_task returns True and leaves the task in the queue.
C4_DependencyGate ==
    [][\A a \in Agents, in \in TaskInputs :
         add_task(a, in) =>
            IF DepsMet(a, in.dependencies)
            THEN /\ add_ret' = <<TRUE>>
                 /\ \E i \in 1..Len(task_queue'[a]) :
                       task_queue'[a][i] = AgentTask(in, submitted + 1)
            ELSE /\ add_ret' = <<FALSE>>
                 /\ UNCHANGED <<status, current_task, task_queue, results_history,
                                statistics, scheduled,
                                in_flight>>]_vars

\* C4 witness: add_task has returned False for an agent whose own result
\* for "x" is a failure while the other agent holds a successful one.
C4_Witness ==
    /\ add_ret = <<FALSE>>
    /\ \E a, b \in Agents :
          /\ a # b
          /\ HasSuccess(b, "x")
          /\ HasFailure(a, "x")
          /\ ~HasSuccess(a, "x")

\* C5: when a task is dequeued, the history holds a successful result for
\* each of its dependencies.
C5_DequeuedDependenciesMet ==
    [][\A a \in Agents : \A t \in Started(a) : DepsMet(a, t.dependencies)]_vars

\* C5 witness: a task that depends on "x" is in flight, after a failed and
\* a successful run of "x".
C5_Witness ==
    \E a \in Agents : \E t \in in_flight[a] :
        /\ "x" \in t.dependencies
        /\ HasFailure(a, "x")

\* C6: current_task is set exactly when the status is WORKING.
C6_CurrentTaskIffWorking ==
    \A a \in Agents : (current_task[a] # NoTask) <=> (status[a] = WORKING)

\* C7: when the work of a task raises, exactly one result is appended, for
\* that task id, with success false and an error message; the agent is IDLE
\* with no current task; and with tasks left in the queue a
\* _process_next_task is scheduled for them.
C7_FailureBecomesResult ==
    [][\A a \in Agents : \A t \in in_flight[a] :
         _process_task_done(a, t, "raise") =>
            LET old == results_history[a]
                new == results_history'[a]
            IN  /\ Len(new) = Len(old) + 1
                /\ SubSeq(new, 1, Len(old)) = old
                /\ new[Len(new)].task_id = t.task_id
                /\ new[Len(new)].success = FALSE
                /\ new[Len(new)].error_message # None
                /\ status'[a] = IDLE
                /\ current_task'[a] = NoTask
                /\ task_queue'[a] = task_queue[a]
                /\ task_queue[a] # <<>> => scheduled'[a] > 0]_vars

\* C7 witness: the latest result is the record of a raised error and the
\* agent is working on a further task.
C7_Witness ==
    \E a \in Agents :
        /\ results_history[a] # <<>>
        /\ results_history[a][Len(results_history[a])].result_type = "error"
        /\ status[a] = WORKING
        /\ in_flight[a] # {}

\* C8: once a task has finished, total_tasks_completed is the length of the
\* history and success_rate is the share of successful results in it.
C8_StatisticsMatchHistory ==
    \A a \in Agents :
        results_history[a] # <<>> =>
            /\ total_tasks_completed[a] = Len(results_history[a])
            /\ success_rate[a].num * Len(results_history[a])
                  = successful_tasks(results_history[a]) * success_rate[a].den

\* C9: at every time, at most max_requests admissions are younger than the
\* window: no interval (t - window, t] holds more.
C9_WindowCeiling == Len(rl_recent) <= MaxRequests

\* C9 witness: the window is full of admissions made at different times and
\* a further caller has been made to wait.
C9_Witness ==
    /\ Len(rl_recent) = MaxRequests
    /\ rl_recent[1] > rl_recent[Len(rl_recent)]
    /\ \E c \in Callers : rl_pc[c] = "sleeping"

\* C10: every acquire() call returns: a caller inside acquire is eventually
\* outside of it again.
C10_EveryAcquireReturns ==
    \A c \in Callers : (rl_pc[c] # "idle") ~> (rl_pc[c] = "idle")

\* the callers in the body of an acquire_slot scope
InScope == {c \in SlotCallers : slot_pc[c] = "inside"}

\* C11: under every interleaving, at most max_concurrent callers are inside
\* the acquire_slot scope, and active_requests is within 0..max_concurrent.
C11_AtMostNInScope ==
    /\ Cardinality(InScope) <= MaxConcurrent
    /\ active_requests \in 0..MaxConcurrent

\* C11 witness: every slot is taken and a further caller waits for one.
C11_Witness ==
    /\ Cardinality(InScope) = MaxConcurrent
    /\ active_requests = MaxConcurrent
    /\ \E c \in SlotCallers : slot_pc[c] = "waiting"

\* C12: once every caller has left acquire_slot, on whatever paths,
\* active_requests is 0 and all max_concurrent slots are available again.
C12_NoSlotLeaks ==
    (\A c \in SlotCallers : slot_pc[c] = "out") =>
        /\ active_requests = 0
        /\ available_slots = MaxConcurrent
        /\ sem_value = MaxConcurrent

\* C12 witness: all callers are out after scopes were left by return, by an
\* error and by cancellation.
C12_Witness ==
    /\ \A c \in SlotCallers : slot_pc[c] = "out"
    /\ slot_exits = ExitPaths

\* C13: every caller that waits for a slot gets into the scope, and every
\* caller in the scope leaves it.
C13_EveryCallerServed ==
    \A c \in SlotCallers :
        /\ (slot_pc[c] = "waiting") ~> (slot_pc[c] = "inside")
        /\ (slot_pc[c] = "inside") ~> (slot_pc[c] = "out")

\* C13 witness: all callers, more than there are slots, are in acquire_slot
\* at once: every slot is taken and the others wait.
C13_Witness ==
    /\ Cardinality(InScope) = MaxConcurrent
    /\ Cardinality(SlotCallers) > MaxConcurrent
    /\ \A c \in SlotCallers : slot_pc[c] \in {"inside", "waiting"}

\* the provider calls of the call that raised an error
FailedAttempts == {i \in 1..Len(mr_log) : mr_log[i].kind = "error"}

\* C14: the provider is called at most retry_attempts times; a call that
\* returns does so with the response of its first successful attempt, which
\* is its last attempt; a call fails exactly when retry_attempts attempts
\* have failed, and with the error of the last of them.
C14_BoundedRetries ==
    /\ mr_calls <= mr_settings.retry_attempts
    /\ Len(mr_log) <= mr_calls
    /\ \A i \in 1..Len(mr_log) - 1 : mr_log[i].kind = "error"
    /\ mr_pc = "returned" =>
          /\ mr_calls = Len(mr_log)
          /\ mr_result = mr_log[Len(mr_log)]
          /\ mr_result.kind = "response"
          /\ mr_result.value \in Responses
    /\ mr_pc = "raised" =>
          /\ mr_calls = mr_settings.retry_attempts
          /\ FailedAttempts = 1..mr_settings.retry_attempts
          /\ mr_result = mr_log[Len(mr_log)]
    /\ (mr_pc # "idle" /\ Cardinality(FailedAttempts) = mr_settings.retry_attempts)
          => mr_pc = "raised"

\* C14 witness: with three attempts, the call has failed with the error of
\* the third, which is not the error of the ones before.
C14_Witness ==
    /\ mr_pc = "raised"
    /\ mr_settings.retry_attempts = 3
    /\ mr_log = <<Raised("e1"), Raised("e1"), Raised("e2")>>
    /\ mr_result = Raised("e2")

\* C15: the k-th sleep of a call (k from 0) lasts retry_delay * 2^k; there
\* is one sleep after each failed attempt that another attempt follows, and
\* none after the last failed attempt or after a successful one.
C15_ExponentialBackoff ==
    /\ \A k \in 0..Len(mr_sleeps) - 1 :
          mr_sleeps[k + 1] = mr_settings.retry_delay * (2 ^ k)
    /\ Len(mr_sleeps) =
          IF mr_pc \in {"returned", "raised"} THEN Len(mr_log) - 1 ELSE Len(mr_log)
    /\ mr_pc = "sleeping" => mr_log[Len(mr_log)].kind = "error"

\* C15 witness: a call with retry_delay 3 has returned after three failed
\* attempts and has slept 3, 6 and 12 seconds.
C15_Witness ==
    /\ mr_pc = "returned"
    /\ mr_result.kind = "response"
    /\ mr_settings.retry_delay = 3
    /\ mr_sleeps = <<3, 6, 12>>

\* the services send_message has called so far, in order
Tried ==
    [i \in 1..Len(rt_log) |-> rt_log[i].service]
        \o (IF rt_pc = "trying" THEN <<services_to_try[rt_index]>> ELSE <<>>)

\* C16: a call returns the response of the provider that answered, tagged
\* with that provider's service, after every provider tried before it has
\* failed; a call fails only when every provider of services_to_try has been
\* tried and has failed, and the failure carries the error of the last one.
C16_FailoverResult ==
    /\ rt_pc = "returned" =>
          /\ rt_log # <<>>
          /\ rt_log[Len(rt_log)].kind = "response"
          /\ \A i \in 1..Len(rt_log) - 1 : rt_log[i].kind = "error"
          /\ rt_result.kind = "response"
          /\ rt_result.service = rt_log[Len(rt_log)].service
          /\ rt_result.content = rt_log[Len(rt_log)].value
    /\ rt_pc = "raised" =>
          /\ rt_log # <<>>
          /\ Len(rt_log) = Len(services_to_try)
          /\ \A i \in 1..Len(rt_log) :
                rt_log[i].kind = "error" /\ rt_log[i].service = services_to_try[i]
          /\ rt_result.kind = "error"
          /\ rt_result.error.message[2] = rt_log[Len(rt_log)].value

\* C16 witness: with the providers in the order openai, claude, openai has
\* failed and the call has returned the response of claude.
C16_Witness ==
    /\ rt_pc = "returned"
    /\ services_to_try = <<OPENAI, CLAUDE>>
    /\ rt_log = <<[service |-> OPENAI, kind |-> "error", value |-> "e1"],
                  [service |-> CLAUDE, kind |-> "response", value |-> "r2"]>>
    /\ rt_result.service = CLAUDE

\* C17: in a call, a preferred service that is available is tried first and
\* the other services follow in the order of service_priority; a preferred
\* service that is not available changes nothing; the services are tried in
\* that order and none of them twice.
C17_PreferredFirstNoRepeat ==
    rt_pc \in {"trying", "returned", "raised"} =>
        /\ IF rt_preferred \in AIService /\ clients[rt_preferred]
           THEN /\ services_to_try # <<>>
                /\ services_to_try[1] = rt_preferred
                /\ Tail(services_to_try)
                      = SelectSeq(service_priority, LAMBDA service : service # rt_preferred)
           ELSE services_to_try = service_priority
        /\ Tried = SubSeq(services_to_try, 1, Len(Tried))
        /\ \A i, j \in 1..Len(Tried) : i # j => Tried[i] # Tried[j]

\* C17 witness: claude is preferred over the default order openai, claude,
\* and has been tried first, openai after it.
C17_Witness ==
    /\ rt_preferred = CLAUDE
    /\ service_priority = <<OPENAI, CLAUDE>>
    /\ Tried = <<CLAUDE, OPENAI>>

\* the agents registered under type t
RegisteredAs(t) == {agent_types[t][i] : i \in 1..Len(agent_types[t])}

\* an agent that is IDLE and has no current task
Free(a) == status[a] = IDLE /\ current_task[a] = NoTask

\* what C18 asks of r, the value get_available_agent(t) returns
RightAgent(t, r) ==
    /\ (r = None) <=> (RegisteredAs(t) = {})
    /\ r # None =>
          /\ r \in RegisteredAs(t)
          /\ agent_type[r] = t
          /\ (\E a \in RegisteredAs(t) : Free(a)) => Free(r)
          /\ ~(\E a \in RegisteredAs(t) : Free(a)) =>
                \A a \in RegisteredAs(t) : Len(task_queue[r]) <= Len(task_queue[a])

\* C18: in every state of the pool and for every type, get_available_agent
\* returns a free agent of the type if there is one, else an agent of the
\* type with a shortest queue, and None exactly when no agent of the type
\* is registered; never an agent of another type.
C18_AvailableAgent ==
    \A t \in AgentTypes : RightAgent(t, available_agent(t))

\* C18 witness: two agents are registered under a type and neither is
\* free; the first has a task queued and the second has none, and
\* get_available_agent returns the second; an agent is registered twice or
\* under the other type in other states.
C18_Witness ==
    \E t \in AgentTypes :
        LET agents == agent_types[t] IN
        /\ Len(agents) = 2
        /\ agents[1] # agents[2]
        /\ ~Free(agents[1]) /\ ~Free(agents[2])
        /\ Len(task_queue[agents[1]]) > Len(task_queue[agents[2]])
        /\ available_agent(t) = agents[2]

\* C19: a paused agent stays PAUSED in every step but those of resume(),
\* the completion of the task in flight included, and while it is PAUSED no
\* step starts a task.
C19_PausedUntilResume ==
    [][\A a \in Agents :
         status[a] = PAUSED =>
            /\ status'[a] # PAUSED => resume(a)
            /\ Started(a) = {}]_vars

\* agent a's history holds the record of a raised error
HasRaised(a) ==
    \E i \in 1..Len(results_history[a]) : results_history[a][i].result_type = "error"

\* C20 as claimed: an agent whose work has failed comes to be in ERROR, and
\* an agent in ERROR with a task queued comes to execute a task.
C20_ErrorReachedAndServes ==
    \A a \in Solo :
        /\ HasRaised(a) ~> (status[a] = ERROR)
        /\ (status[a] = ERROR /\ task_queue[a] # <<>>) ~> (in_flight[a] # {})

\* C20 as amended: no operation puts an agent in ERROR (its status is IDLE,
\* WORKING or PAUSED in every state); the step in which the work of a task
\* raises leaves the agent IDLE, and with a task queued a _process_next_task
\* is scheduled for it.
C20_ErrorNeverEntered ==
    /\ [](\A a \in Agents : status[a] \in {IDLE, WORKING, PAUSED})
    /\ [][\A a \in Agents : \A t \in in_flight[a] :
            _process_task_done(a, t, "raise") =>
                /\ status'[a] = IDLE
                /\ task_queue[a] # <<>> => scheduled'[a] > 0]_vars

\* C20 witness: after the record of a raised error the history holds the
\* successful result of a later task, and the agent is IDLE.
C20_Witness ==
    \E a \in Agents :
        /\ Len(results_history[a]) >= 2
        /\ results_history[a][1].result_type = "error"
        /\ results_history[a][Len(results_history[a])].success
        /\ status[a] = IDLE
        /\ current_task[a] = NoTask


\* the task objects add_task can have accepted
AcceptedTasks == {AgentTask(in, n) : in \in TaskInputs, n \in 1..MaxLiveSubmit}

\* task t waits in the queue of agent a
Queued(a, t) == \E i \in 1..Len(task_queue[a]) : task_queue[a][i] = t

\* task t has left the queue of agent a, its work has ended and the history
\* holds a result for its task id
Recorded(a, t) ==
    /\ ~Queued(a, t)
    /\ t \notin in_flight[a]
    /\ \E i \in 1..Len(results_history[a]) : results_history[a][i].task_id = t.task_id

Dequeued(a) == in_flight'[a] \ in_flight[a]

\* the tasks of agent a whose work ends in a step
Finished(a) == in_flight[a] \ in_flight'[a]

\* C22: a step that dequeues a task takes one task, the head, and leaves the
\* rest of the queue, adding nothing to the history; in every step the old
\* history is a prefix of the new one, and the history grows by the number of
\* tasks whose work ends in the step (never more than one), the new result
\* carrying the id of that task. The history starts empty, so its length is
\* the number of tasks that have finished.
C22_OneResultPerTask ==
    [][\A a \in Agents :
         LET old == results_history[a]
             new == results_history'[a]
         IN  /\ Dequeued(a) # {} =>
                   /\ task_queue[a] # <<>>
                   /\ Dequeued(a) = {Head(task_queue[a])}
                   /\ task_queue'[a] = Tail(task_queue[a])
                   /\ Len(task_queue'[a]) = Len(task_queue[a]) - 1
                   /\ new = old
             /\ Len(new) >= Len(old)
             /\ SubSeq(new, 1, Len(old)) = old
             /\ Len(new) = Len(old) + Cardinality(Finished(a))
             /\ Cardinality(Finished(a)) <= 1
             /\ \A t \in Finished(a) : new[Len(new)].task_id = t.task_id]_vars

\* C22 witness: three tasks have finished, one of them by raising, and the
\* history holds three results while the queue is empty.
C22_Witness ==
    \E a \in Agents :
        /\ Len(results_history[a]) = 3
        /\ HasRaised(a)
        /\ task_queue[a] = <<>>
        /\ in_flight[a] = {}
        /\ submitted = 3


\* The callers inside acquire(), in the order of their calls.  The caller that
\* went to sleep inside the with block called first and still holds the lock;
\* all the others called while it held the lock and stand in the lock's
\* queue in the order of their calls (the sleeper joins that queue, behind
\* them, only when its sleep is over and it calls acquire() again).
Contending ==
    IF rl_lock = None
    THEN <<>>
    ELSE LET others(c) == c # rl_lock
         IN  <<rl_lock>> \o SelectSeq(rl_waiters, others)

\* a step in which acquire() records a request, that is admits its caller
Admission == Len(rl_recent') > Len(rl_recent)

\* C23: contending callers are admitted in the order of their calls: the one
\* that called first comes to be admitted, and a step that admits a caller
\* while callers contend admits the one among them that called first.
C23_AdmittedInCallOrder ==
    /\ \A c \in Callers :
          (Contending # <<>> /\ Head(Contending) = c) ~> (rl_pc[c] = "idle")
    /\ [][(Admission /\ Contending # <<>>) =>
             rl_pc'[Head(Contending)] = "idle"]_vars


\* C24: in every send_message call the provider is awaited only by a sender
\* that is out of rate_limiter.acquire() and inside the scope of a slot; a
\* sender still in rate_limiter.acquire() is outside acquire_slot, neither
\* holding a slot nor waiting for one; a call never goes back from the slot
\* to the admission, and the step that takes a call on to the slot (and at
\* once or later to the provider) is a step in which the limiter records
\* its request.
C24_AdmissionSlotProvider ==
    /\ [](\A m \in Senders :
            LET c == limiter_caller[m]
                s == slot_caller[m]
            IN  /\ sm_pc[m] \in {"provider", "backoff"} =>
                      rl_pc[c] = "idle" /\ slot_pc[s] = "inside"
                /\ rl_pc[c] # "idle" =>
                      sm_pc[m] = "admission" /\ slot_pc[s] = "out"
                /\ sm_pc[m] = "slot" => rl_pc[c] = "idle" /\ slot_pc[s] # "inside")
    /\ [][\A m \in Senders :
            /\ sm_pc[m] = "slot" => sm_pc'[m] \in {"slot", "provider"}
            /\ sm_pc[m] = "admission" => sm_pc'[m] \in {"admission", "slot", "provider"}
            /\ sm_pc[m] = "idle" /\ sm_pc'[m] = "provider" =>
                  slot_pc[slot_caller[m]] = "out"
            /\ (sm_pc[m] \in {"idle", "admission"} /\ sm_pc'[m] \in {"slot", "provider"})
                  => Admission]_vars

\* C24 witness: a sender sleeps in rate_limiter.acquire() while another one,
\* admitted before, is inside its slot at a later attempt of its request.
C24_Witness ==
    \E m, n \in Senders :
        /\ sm_pc[m] = "admission"
        /\ rl_pc[limiter_caller[m]] = "sleeping"
        /\ sm_pc[n] = "provider"
        /\ sm_attempt[n] > 0


\* the processing times the history of agent a holds
recorded_times(a) ==
    LET timed(r) == r.processing_time # <<>>
        results == SelectSeq(results_history[a], timed)
    IN  [i \in 1..Len(results) |-> results[i].processing_time[1]]

\* C25: estimate_processing_time returns the default of 60 exactly when the
\* history of the agent is empty; with a result in the history, of a task
\* that succeeded, failed or raised, it returns the mean of the processing
\* times in the history times the multiplier of the priority.
C25_EstimateFromHistory ==
    \A a \in Solo : \A p \in TaskPriority :
        LET estimate == estimate_processing_time(a, p)
            times == recorded_times(a)
        IN  /\ (estimate = default_estimate) <=> (results_history[a] = <<>>)
            /\ results_history[a] # <<>> =>
                  /\ times # <<>>
                  /\ estimate.num * 10 * Len(times)
                        = sum(times) * priority_multipliers[p] * estimate.den


\* C26: a step in which get_status or get_pool_status returns (query_ret
\* gets the returned dict) leaves the status, the current task, the queue,
\* the history and the statistics of every agent and the registry of the
\* pool as they were, in every reachable state.
C26_QueriesReadOnly ==
    [][query_ret' # query_ret =>
          /\ UNCHANGED <<status, current_task, task_queue, results_history>>
          /\ UNCHANGED statistics
          /\ UNCHANGED <<scheduled, in_flight>>
          /\ UNCHANGED <<agent_type, pool_agents, agent_types>>]_vars

\* C26 witness: get_status has returned the status of a registered agent
\* that is paused with its task in flight, and nothing has changed since.
C26_Witness ==
    \E a \in pool_agents :
        /\ status[a] = PAUSED
        /\ in_flight[a] # {}
        /\ query_ret = <<agent_status(a)>>


\* C27: when _update_statistics has run for an agent, running it again for
\* the same result with the history as it is gives the same success_rate
\* and the same average_quality_score.
C27_RecomputeIdempotent ==
    [][\A a \in Solo :
         total_tasks_completed'[a] = total_tasks_completed[a] + 1 =>
            LET history == results_history'[a]
                once == Statistics(total_tasks_completed'[a], total_processing_time'[a],
                                   success_rate'[a], average_quality_score'[a])
                twice == updated_statistics(once, history[Len(history)], history)
            IN  /\ twice.success_rate = once.success_rate
                /\ twice.average_quality_score = once.average_quality_score]_vars

\* C27 witness: the statistics have been computed again (more tasks are
\* counted than the history holds) from a history with a success, a
\* failure or error, and two different quality scores.
C27_Witness ==
    \E a \in Solo :
        /\ total_tasks_completed[a] > Len(results_history[a])
        /\ Len(results_history[a]) = 2
        /\ success_rate[a] = Fraction(1, 2)
        /\ average_quality_score[a] = Fraction(8, 2)


\* C28: pause() on an agent that is not WORKING and resume() on an agent
\* that is not PAUSED change nothing; pause() on a WORKING agent changes its
\* status, to PAUSED, and nothing else; resume() on a PAUSED agent makes it
\* IDLE, schedules a _process_next_task exactly when the queue is not empty
\* and there is no current task, and changes nothing else.
C28_PauseResumeFrame ==
    [][\A a \in Solo :
         /\ pause(a) =>
               /\ status[a] # WORKING => UNCHANGED agentVars
               /\ status[a] = WORKING => status'[a] = PAUSED
               /\ UNCHANGED <<current_task, task_queue, results_history, statistics,
                              scheduled, in_flight>>
         /\ resume(a) =>
               /\ status[a] # PAUSED => UNCHANGED agentVars
               /\ status[a] = PAUSED =>
                     /\ status'[a] = IDLE
                     /\ scheduled'[a] =
                           IF task_queue[a] # <<>> /\ current_task[a] = NoTask
                           THEN scheduled[a] + 1 ELSE scheduled[a]
               /\ UNCHANGED <<current_task, task_queue, results_history, statistics,
                              in_flight>>]_vars

\* C28 witness: an agent that was paused in its only task has been resumed:
\* it is IDLE with that task as current task, still in flight, and a task
\* waits in its queue.
C28_Witness ==
    \E a \in Solo :
        /\ status[a] = IDLE
        /\ current_task[a] # NoTask
        /\ in_flight[a] = {current_task[a]}
        /\ results_history[a] = <<>>
        /\ task_queue[a] # <<>>


\* C29: a _process_next_task that finds its agent not IDLE, or the queue
\* empty, returns at once: status, current task, queue, history, statistics
\* and the tasks in flight stay as they are, and no further
\* _process_next_task is scheduled (the one that ran is used up).
C29_NothingToProcessIsNoOp ==
    [][\A a \in Solo :
         (_process_next_task(a) /\ (status[a] # IDLE \/ task_queue[a] = <<>>)) =>
            /\ UNCHANGED <<status, current_task, task_queue, results_history,
                           statistics, in_flight>>
            /\ scheduled'[a] = scheduled[a] - 1]_vars

\* C29 witness: the only task accepted was cleared from the queue before the
\* _process_next_task scheduled for it ran; that one has run and found the
\* queue empty: nothing is scheduled, in flight or in the history.
C29_Witness ==
    \E a \in Solo :
        /\ submitted = 1
        /\ scheduled[a] = 0
        /\ task_queue[a] = <<>>
        /\ in_flight[a] = {}
        /\ results_history[a] = <<>>
        /\ status[a] = IDLE


\* the positions of services_to_try whose service has a client
Called(i) == i \in 1..Len(services_to_try) /\ clients[services_to_try[i]]

\* C30: every provider gets the full retry budget R = settings.retry_attempts
\* of its own. While send_message awaits a provider, every provider before
\* it in services_to_try has made exactly R API calls, the one awaited has
\* made one call per attempt so far, at most R, and those after it none;
\* when send_message has raised because all P providers failed, each has
\* made exactly R API calls, P * R together.
C30_RetryBudgetPerProvider ==
    LET R == fo_retry_attempts
        P == Cardinality({i \in 1..Len(services_to_try) : Called(i)})
    IN  /\ rt_pc = "trying" =>
              /\ \A i \in 1..Len(services_to_try) :
                    /\ (Called(i) /\ i < rt_index) => fo_calls[services_to_try[i]] = R
                    /\ i > rt_index => fo_calls[services_to_try[i]] = 0
              /\ fo_calls[services_to_try[rt_index]] = fo_attempt + 1
              /\ fo_attempt + 1 <= R
        /\ rt_pc = "raised" =>
              /\ \A i \in 1..Len(services_to_try) :
                    Called(i) => fo_calls[services_to_try[i]] = R
              /\ fo_calls[OPENAI] + fo_calls[CLAUDE] = P * R

\* C30 witness: with a retry budget of more than one attempt, send_message
\* has raised after both providers failed, each after its full budget.
C30_Witness ==
    /\ rt_pc = "raised"
    /\ fo_retry_attempts > 1
    /\ Len(services_to_try) = 2
    /\ fo_calls[OPENAI] = fo_retry_attempts
    /\ fo_calls[CLAUDE] = fo_retry_attempts

\* a step between two attempts of one _make_request call of sender m
RetryStep(m) ==
    \/ sm_pc[m] = "provider" /\ sm_pc'[m] = "backoff"
    \/ sm_pc[m] = "backoff" /\ sm_pc'[m] = "provider"

\* C31: all attempts of one send_message call run under the one admission and
\* the one slot taken before the first attempt: a step between two attempts
\* keeps the sender inside its slot and leaves the limiter and the count of
\* active requests alone; a sender in the backoff sleep stays inside its
\* slot whatever happens; a slot is entered only for attempt 0 and left only
\* in the step that ends the call, by a response or by the failure of the
\* last attempt; and every request the limiter records belongs to a call that
\* goes on from the admission to its slot in that step.
C31_RetriesUnderOneAdmissionAndSlot ==
    [][/\ \A m \in Senders :
             LET s == slot_caller[m] IN
             /\ RetryStep(m) =>
                   /\ slot_pc[s] = "inside" /\ slot_pc'[s] = "inside"
                   /\ active_requests' = active_requests
                   /\ sem_value' = sem_value
                   /\ rl_requests' = rl_requests
                   /\ rl_recent' = rl_recent
                   /\ rl_pc' = rl_pc
             /\ sm_pc[m] = "backoff" => slot_pc'[s] = "inside"
             /\ (slot_pc[s] # "inside" /\ slot_pc'[s] = "inside") =>
                   sm_pc'[m] = "provider" /\ sm_attempt'[m] = 0
             /\ (slot_pc[s] = "inside" /\ slot_pc'[s] # "inside") =>
                   /\ sm_pc[m] = "provider" /\ sm_pc'[m] = "idle"
                   /\ \/ total_requests' = total_requests + 1
                      \/ /\ error_count' = error_count + 1
                         /\ sm_attempt[m] = settings_retry_attempts - 1
       /\ Admission =>
             \E m \in Senders :
                 /\ sm_pc[m] \in {"idle", "admission"}
                 /\ sm_pc'[m] \in {"slot", "provider"}]_vars

\* C31 witness: a sender sleeps between its second and its third attempt,
\* inside its slot, while another sender waits for a slot to get free.
C31_Witness ==
    \E m, n \in Senders :
        /\ sm_pc[m] = "backoff"
        /\ sm_attempt[m] = 1
        /\ slot_pc[slot_caller[m]] = "inside"
        /\ sm_pc[n] = "slot"
        /\ slot_pc[slot_caller[n]] = "waiting"

\* C32: error_count never exceeds total_requests, so that the success rate
\* get_statistics reports, (total_requests - error_count) /
\* max(total_requests, 1), lies between 0 and 1.
C32_ErrorsWithinRequests ==
    /\ error_count <= total_requests
    /\ LET rate == get_statistics.success_rate
       IN  0 <= rate.num /\ rate.num <= rate.den

\* the services a constructed MultiAIClient holds a client for
Available(service) == service \in AIService /\ clients[service]

\* C33: under every pair of settings and every set of available services
\* that is not empty, the service_priority of the constructed client is not
\* empty, names no service twice, names only available services, and starts
\* with the primary service whenever that one is available.
C33_PriorityList ==
    rt_pc \notin {"unbuilt", "init_failed"} =>
        /\ service_priority # <<>>
        /\ \A i, j \in 1..Len(service_priority) :
              service_priority[i] = service_priority[j] => i = j
        /\ \A i \in 1..Len(service_priority) : Available(service_priority[i])
        /\ Available(primary_ai_service) =>
              service_priority[1] = primary_ai_service

\* C33 witness: neither the primary nor the fallback setting names an
\* available service, and the list holds the one service that is available.
C33_Witness ==
    /\ rt_pc = "ready"
    /\ primary_ai_service = "openai"
    /\ fallback_ai_service = "other"
    /\ ~clients[OPENAI]
    /\ service_priority = <<CLAUDE>>

\* C34: active_requests is the number of callers inside the acquire_slot
\* scope, and the available_slots of get_queue_status is max_concurrent
\* minus that number.  A caller is in the middle of entering or leaving
\* only within a step (the two "async with self._lock" never suspend), so
\* this is stated of every state: also while callers wait for a slot, have
\* been woken with a slot and not run yet, or have been cancelled.
C34_ActiveIsInScope ==
    /\ active_requests = Cardinality(InScope)
    /\ available_slots = MaxConcurrent - Cardinality(InScope)

\* C34 witness: one caller is inside the scope and another has been woken
\* with the slot a third one gave back (the semaphore has handed out every
\* slot, one of them is not yet counted as active), after a scope was left
\* by cancellation.
C34_Witness ==
    /\ Cardinality(InScope) = 1
    /\ \E c \in SlotCallers : slot_pc[c] = "woken"
    /\ sem_value = 0
    /\ "cancel" \in slot_exits

\* the distinct registered agents of type t
RegisteredOfType(t) == {a \in pool_agents : agent_type[a] = t}

\* C35: in the dict get_pool_status returns, the idle, working, paused and
\* error counts of overall_stats sum to total_agents, and the count of each
\* type is the number of distinct registered agents of that type.
C35_PoolStatusCounts ==
    LET report == pool_status
        overall == report.overall_stats
    IN  /\ overall[IDLE] + overall[WORKING] + overall[PAUSED] + overall[ERROR]
              = report.total_agents
        /\ \A t \in DOMAIN report.agent_types :
              report.agent_types[t].count = Cardinality(RegisteredOfType(t))

\* task t of agent a is out of sight: accepted or passed over before now,
\* and neither in the queue nor in flight (cleared, finished, or never made)
OutOfSight(a, t) ==
    /\ t.seq <= submitted
    /\ ~Queued(a, t)
    /\ t \notin in_flight[a]

\* C36: clear_queue empties the queue and leaves status, current task,
\* history, statistics and the tasks in flight as they are; a task in flight
\* leaves the flight only in a step that appends a result for it to the
\* history, and it comes to do so, cleared queue or not; and a task that is
\* out of the queue without being in flight, as every cleared task is,
\* stays so for good: it is never queued or in flight afterwards.
C36_ClearQueueFrame ==
    /\ [][\A a \in Solo :
             /\ clear_queue(a) =>
                   /\ task_queue'[a] = <<>>
                   /\ UNCHANGED <<status, current_task, results_history,
                                  statistics, in_flight>>
             /\ \A t \in in_flight[a] \ in_flight'[a] :
                   /\ Len(results_history'[a]) = Len(results_history[a]) + 1
                   /\ results_history'[a][Len(results_history'[a])].task_id = t.task_id
             /\ \A t \in AcceptedTasks : OutOfSight(a, t) => OutOfSight(a, t)']_vars
    /\ \A a \in Solo : \A t \in AcceptedTasks :
          (t \in in_flight[a]) ~> Recorded(a, t)

\* C36 witness: the queue was cleared while a task was in flight: the task
\* accepted first is in flight, the one accepted after it is neither queued
\* nor in flight and has no result.
C36_Witness ==
    \E a \in Solo : \E t \in in_flight[a] :
        /\ in_flight[a] = {t}
        /\ t.seq = 1
        /\ submitted = 2
        /\ task_queue[a] = <<>>
        /\ results_history[a] = <<>>

====
